---- MODULE Spec2Model ----
(***************************************************************************)
(* Model of the loop transformations of loki/transform/transform_loop.py:  *)
(* the halfspace model of iteration spaces (Polyhedron), Fourier-Motzkin   *)
(* elimination, bound reordering, loop interchange, loop fusion and loop   *)
(* fission.  Every transformation is a pure function of its input, so each *)
(* one gets a specification whose initial states enumerate inputs and      *)
(* whose action applies the function to the input.                         *)
(***************************************************************************)
EXTENDS Integers, Sequences, FiniteSets, TLC

VARIABLES
    polyhedron,      \* input of eliminate_variable: [A, b, variables]
    index,           \* column to eliminate (1-based)
    reduced,         \* result of eliminate_variable, or NotRun
    loop_nest,       \* input of loop_interchange: the annotated loop nest
    var_order,       \* variable order given in the pragma (<<>>: none given)
    project_bounds,  \* the project_bounds argument of loop_interchange
    interchanged,    \* result of loop_interchange, or NotRun
    loop_list,       \* input of loop_fusion: the loops of one fusion group
    fusion,          \* result of loop_fusion, or NotRun
    fission_loop,    \* input of loop_fission: a loop with fission pragmas
    rebuilt,         \* result of FissionTransformer.visit_Loop, or NotRun
    promotion,       \* promotion_vars_dims and promotion_vars_index, or NotRun
    requested,       \* the promotion requests processed so far
    routine,         \* input of a driver: the body of a routine
    outcome          \* the routine after the driver, or NotRun

vars == <<polyhedron, index, reduced, loop_nest, var_order, project_bounds,
          interchanged, loop_list, fusion, fission_loop, rebuilt,
          promotion, requested, routine, outcome>>

elimVars == <<polyhedron, index, reduced>>
interVars == <<loop_nest, var_order, project_bounds, interchanged>>
fusionVars == <<loop_list, fusion>>
fissionVars == <<fission_loop, rebuilt>>
promotionVars == <<promotion, requested>>
routineVars == <<routine, outcome>>

-----------------------------------------------------------------------------
(* Bounds of the model *)

MaxRows == 3     \* rows of an input polyhedron
MaxCoef == 2     \* |entry of A| in an input polyhedron
MaxRhs == 1      \* |entry of b| in an input polyhedron
MaxPt == 2       \* |coordinate| of the points the claims quantify over
MaxBoundCoef == 1  \* |coefficient| of a variable in a bound of an input loop
MaxConst == 1    \* constant term of a bound of an input loop
MaxSym == 3      \* value of a free symbol of the bounds
MaxFusionConst == 3  \* constant bound of a loop of a fusion group
MaxBodyLen == 2  \* nodes in the body of a loop to split
MaxScopeLen == 2  \* nodes in the body of a conditional or inner loop
MaxPromoSize == 2  \* constant upper bound of a loop around a promotion marker
MaxPromoRank == 2  \* loops around a promotion marker
MaxRequests == 2  \* markers that request promotions
MaxItems == 4    \* statements, targets, windows and loops of a routine to hoist in
MaxWindowLen == 1  \* statements in a hoist window
MaxConstructs == 2  \* annotated nests or groups of a routine
MaxShapeRows == 5  \* rows of a system whose elimination is measured
MaxPlaced == 4  \* nodes of a routine body with fusion groups
MaxNestDepth == 2  \* loops around a hoist window with collapse
MaxCollapse == 2  \* the n of collapse(n) of a hoist window
MaxCollapsedLen == 2  \* statements in a hoist window with collapse

-----------------------------------------------------------------------------
(* Generic helpers *)

Abs(x) == IF x < 0 THEN -x ELSE x

Range(s) == {s[k] : k \in DOMAIN s}

Indices(n) == [k \in 1..n |-> k]

\* s with position j removed (np.delete(..., j, axis=1); variables[:j] + variables[j+1:])
DropAt(s, j) == [k \in 1..(Len(s) - 1) |-> IF k < j THEN s[k] ELSE s[k + 1]]

\* s with v inserted at position j
InsertAt(s, j, v) ==
    [k \in 1..(Len(s) + 1) |-> IF k < j THEN s[k] ELSE IF k = j THEN v ELSE s[k - 1]]

RECURSIVE DotUpTo(_, _, _)
DotUpTo(r, x, k) == IF k = 0 THEN 0 ELSE r[k] * x[k] + DotUpTo(r, x, k - 1)

Dot(r, x) == DotUpTo(r, x, Len(r))

\* A run that has not happened yet
NotRun == [err |-> "not run"]

-----------------------------------------------------------------------------
(* Polyhedron: { x | A x <= b } *)

Polyhedron(A, b, variables) ==
    [err |-> "", A |-> A, b |-> b, variables |-> variables]

\* A raised exception, in the place of a result
Raise(e) == [err |-> e]

NRows(P) == Len(P.A)
NCols(P) == Len(P.variables)

\* x satisfies every row of P
Satisfies(P, x) == \A i \in 1..NRows(P) : Dot(P.A[i], x) <= P.b[i]

-----------------------------------------------------------------------------
(* eliminate_variable *)

\* Indices of lower bounds on x_j
L(P, j) == SelectSeq(Indices(NRows(P)), LAMBDA i : P.A[i][j] < 0)

\* Indices of upper bounds on x_j
U(P, j) == SelectSeq(Indices(NRows(P)), LAMBDA i : P.A[i][j] > 0)

ZNone(P, j) == <<>>

\* Indices of constraints not involving x_j
Z(P, j) == SelectSeq(Indices(NRows(P)), LAMBDA i : P.A[i][j] = 0)

\* Cartesian product of lower and upper bounds, l-major
R(P, j) ==
    LET ls == L(P, j)
        us == U(P, j)
    IN [k \in 1..(Len(ls) * Len(us)) |->
            <<ls[((k - 1) \div Len(us)) + 1], us[((k - 1) % Len(us)) + 1]>>]

PairRowPlus(P, j, l, u) ==
    [A |-> [k \in 1..NCols(P) |-> P.A[u][j] * P.A[l][k] + P.A[l][j] * P.A[u][k]],
     b |-> P.A[u][j] * P.b[l] + P.A[l][j] * P.b[u]]

\* The row that combines lower bound l with upper bound u
PairRow(P, j, l, u) ==
    [A |-> [k \in 1..NCols(P) |-> P.A[u][j] * P.A[l][k] - P.A[l][j] * P.A[u][k]],
     b |-> P.A[u][j] * P.b[l] - P.A[l][j] * P.b[u]]

eliminate_variable(P, j) ==
    LET zs == Z(P, j)
        rs == R(P, j)
        n == Len(zs) + Len(rs)
        rowA(k) == IF k <= Len(zs) THEN P.A[zs[k]]
                   ELSE PairRow(P, j, rs[k - Len(zs)][1], rs[k - Len(zs)][2]).A
        rowb(k) == IF k <= Len(zs) THEN P.b[zs[k]]
                   ELSE PairRow(P, j, rs[k - Len(zs)][1], rs[k - Len(zs)][2]).b
    IN  \* A and b are allocated with the shape of the input: writing row
        \* number NRows(P) + 1 raises IndexError
        IF n > NRows(P) THEN Raise("IndexError")
        ELSE Polyhedron([k \in 1..n |-> DropAt(rowA(k), j)],
                        [k \in 1..n |-> rowb(k)],
                        DropAt(P.variables, j))

-----------------------------------------------------------------------------
(* Expressions of loop bounds.  An affine expression is a constant c plus *)
(* integer multiples t[v] of the variables; a quotient divides an affine  *)
(* numerator by an integer; a call applies min or max to expressions.     *)

\* Every variable name of the model, in the order sorting by name gives
NameOrder == <<"i", "j", "k", "l", "n">>

\* str.lower() on the names of the model, K being the one name in upper case
Lower(v) == IF v = "K" THEN "k" ELSE v
Names == Range(NameOrder)

NamePos(v) == CHOOSE p \in DOMAIN NameOrder : NameOrder[p] = v

NoTerms == [v \in Names |-> 0]

Affine(c, t) == [kind |-> "affine", c |-> c, t |-> t, den |-> 1, args |-> <<>>]
IntLiteral(c) == Affine(c, NoTerms)
Term(a, v) == [NoTerms EXCEPT ![v] = a]
Scalar(v) == Affine(0, Term(1, v))
Quotient(num, den) ==
    [kind |-> "quotient", c |-> num.c, t |-> num.t, den |-> den, args |-> <<>>]
InlineCall(f, args) ==
    [kind |-> f, c |-> 0, t |-> NoTerms, den |-> 1, args |-> args]

\* The variables an expression refers to (FindVariables)
FindVariables(e) == {v \in Names : e.t[v] # 0}

\* Division of integers as Fortran evaluates it: truncation towards zero
TruncDiv(a, b) ==
    IF (a >= 0) = (b > 0) THEN Abs(a) \div Abs(b) ELSE -(Abs(a) \div Abs(b))

SetMax(S) == CHOOSE x \in S : \A y \in S : y <= x
SetMin(S) == CHOOSE x \in S : \A y \in S : x <= y

RECURSIVE EvalTerms(_, _, _)
EvalTerms(expr, values, p) ==
    IF p = 0 THEN expr.c
    ELSE expr.t[NameOrder[p]] * values[NameOrder[p]] + EvalTerms(expr, values, p - 1)

EvalAffine(expr, values) == EvalTerms(expr, values, Len(NameOrder))

EvalOperand(expr, values) ==
    IF expr.kind = "quotient" THEN TruncDiv(EvalAffine(expr, values), expr.den)
    ELSE EvalAffine(expr, values)

\* Value of a bound expression when the variables have the given values
Eval(expr, values) ==
    CASE expr.kind \in {"affine", "quotient"} -> EvalOperand(expr, values)
      [] expr.kind = "max" ->
            SetMax({EvalOperand(expr.args[a], values) : a \in DOMAIN expr.args})
      [] expr.kind = "min" ->
            SetMin({EvalOperand(expr.args[a], values) : a \in DOMAIN expr.args})

is_constant(e) == e.kind = "affine" /\ e.t = NoTerms

\* simplify(Quotient(num, den)): the division is carried out when it leaves
\* integer coefficients, and the quotient is kept otherwise
simplify_quotient(num, den) ==
    IF num.c % Abs(den) = 0 /\ \A v \in Names : num.t[v] % Abs(den) = 0
    THEN Affine(TruncDiv(num.c, den), [v \in Names |-> TruncDiv(num.t[v], den)])
    ELSE Quotient(num, den)

\* simplify(a - b) for affine a and b
simplify_difference(a, b) == Affine(a.c - b.c, [v \in Names |-> a.t[v] - b.t[v]])

LoopRange(start, stop, step) == [start |-> start, stop |-> stop, step |-> step]

\* The step of a range that gives none
NoStep == "none"

-----------------------------------------------------------------------------
(* Polyhedron.lower_bounds, Polyhedron.upper_bounds *)

IsolatedBoundWithSelf(P, i, j) ==
    LET num == Affine(P.b[i],
                      [v \in Names |->
                          IF \E k \in 1..NCols(P) : P.variables[k] = v
                          THEN -P.A[i][CHOOSE k \in 1..NCols(P) : P.variables[k] = v]
                          ELSE 0])
    IN simplify_quotient(num, P.A[i][j])

\* The bound that row i puts on variable j: (b[i] - sum_{k # j} A[i,k] x_k) / A[i,j]
IsolatedBound(P, i, j) ==
    LET num == Affine(P.b[i],
                      [v \in Names |->
                          IF \E k \in 1..NCols(P) :
                                 k # j /\ P.variables[k] = v
                          THEN -P.A[i][CHOOSE k \in 1..NCols(P) : P.variables[k] = v]
                          ELSE 0])
    IN simplify_quotient(num, P.A[i][j])

DependsOnNothing(P, i, ignore_variables) == FALSE

\* Rows that depend on one of the ignored columns are skipped
DependsOn(P, i, ignore_variables) == \E k \in ignore_variables : P.A[i][k] # 0

lower_bounds(P, j, ignore_variables) ==
    LET rows == SelectSeq(Indices(NRows(P)),
                          LAMBDA i : P.A[i][j] < 0 /\ ~DependsOn(P, i, ignore_variables))
    IN [k \in 1..Len(rows) |-> IsolatedBound(P, rows[k], j)]

upper_bounds(P, j, ignore_variables) ==
    LET rows == SelectSeq(Indices(NRows(P)),
                          LAMBDA i : P.A[i][j] > 0 /\ ~DependsOn(P, i, ignore_variables))
    IN [k \in 1..Len(rows) |-> IsolatedBound(P, rows[k], j)]

-----------------------------------------------------------------------------
(* Polyhedron.generate_entries_for_lower_bound, Polyhedron.from_loop_ranges *)

\* Only constants, symbols, sums and products are decomposed
Decomposable(bound) == bound.kind = "affine"

generate_entries_without_constant(bound, variables, idx) ==
    [err |-> IF Decomposable(bound) THEN "" ELSE "ValueError",
     A |-> [k \in 1..Len(variables) |->
               IF bound.t[variables[k]] # 0 THEN bound.t[variables[k]]
               ELSE IF k = idx THEN -1 ELSE 0],
     b |-> 0]

\* The row "bound - x_index <= 0": [err, A, b]
generate_entries_for_lower_bound(bound, variables, idx) ==
    IF ~Decomposable(bound) THEN [err |-> "ValueError", A |-> <<>>, b |-> 0]
    ELSE IF \E v \in FindVariables(bound) : v \notin Range(variables)
    THEN [err |-> "ValueError", A |-> <<>>, b |-> 0]
    ELSE [err |-> "",
          A |-> [k \in 1..Len(variables) |->
                    IF bound.t[variables[k]] # 0 THEN bound.t[variables[k]]
                    ELSE IF k = idx THEN -1 ELSE 0],
          b |-> -bound.c]

Negated(row) == [err |-> row.err, A |-> [k \in DOMAIN row.A |-> -row.A[k]], b |-> -row.b]

\* The names of S, sorted
SortedNames(S) == SelectSeq(NameOrder, LAMBDA v : v \in S)

RangeVariables(loop_ranges) ==
    UNION {FindVariables(loop_ranges[k].start) \cup FindVariables(loop_ranges[k].stop)
           : k \in DOMAIN loop_ranges}

FirstError(rows) ==
    IF \E k \in DOMAIN rows : rows[k].err # ""
    THEN rows[CHOOSE k \in DOMAIN rows :
                 rows[k].err # "" /\ \A m \in 1..(k - 1) : rows[m].err = ""].err
    ELSE ""

from_loop_ranges(loop_variables, loop_ranges) ==
    LET variable_names == [k \in DOMAIN loop_variables |-> Lower(loop_variables[k])]
        variables == variable_names \o
            SortedNames(RangeVariables(loop_ranges) \ Range(variable_names))
        row(r) ==
            LET i == (r + 1) \div 2
                j == CHOOSE k \in 1..Len(variables) : variables[k] = variable_names[i]
            IN IF loop_ranges[i].step \notin {NoStep, "1"}
               THEN [err |-> "AssertionError", A |-> <<>>, b |-> 0]
               ELSE IF r % 2 = 1
               THEN generate_entries_for_lower_bound(loop_ranges[i].start, variables, j)
               ELSE Negated(generate_entries_for_lower_bound(loop_ranges[i].stop, variables, j))
        rows == [r \in 1..(2 * Len(loop_ranges)) |-> row(r)]
    IN IF FirstError(rows) # "" THEN Raise(FirstError(rows))
       ELSE Polyhedron([r \in DOMAIN rows |-> rows[r].A],
                       [r \in DOMAIN rows |-> rows[r].b], variables)

-----------------------------------------------------------------------------
(* generate_loop_bounds *)

\* The entry of index_map of a variable that has been eliminated
None == 0

RECURSIVE ConcatUpTo(_, _)
ConcatUpTo(ss, k) == IF k = 0 THEN <<>> ELSE ConcatUpTo(ss, k - 1) \o ss[k]

Concat(ss) == ConcatUpTo(ss, Len(ss))

\* index_map[var_idx] = None; index_map[var_idx+1:] = [i-1 for i in index_map[var_idx+1:]]
\* (None - 1 raises TypeError)
UpdateIndexMap(index_map, var_idx) ==
    IF \E w \in DOMAIN index_map : w > var_idx /\ index_map[w] = None
    THEN [err |-> "TypeError", index_map |-> index_map]
    ELSE [err |-> "",
          index_map |-> [w \in DOMAIN index_map |->
                            IF w = var_idx THEN None
                            ELSE IF w > var_idx THEN index_map[w] - 1
                            ELSE index_map[w]]]

\* One pass of the loop "for var_idx in reversed(iteration_order)"
ProjectStep(st, var_idx) ==
    LET idx == st.index_map[var_idx]
        red == eliminate_variable(st.polyhedron, idx)
        upd == UpdateIndexMap(st.index_map, var_idx)
    IN IF st.err # "" THEN st
       ELSE IF idx = None THEN [st EXCEPT !.err = "AssertionError"]
       ELSE IF red.err # "" THEN [st EXCEPT !.err = red.err]
       ELSE IF upd.err # "" THEN [st EXCEPT !.err = upd.err]
       ELSE [err |-> "",
             index_map |-> upd.index_map,
             lower_bounds |-> [st.lower_bounds EXCEPT
                                  ![var_idx] = lower_bounds(st.polyhedron, idx, {})],
             upper_bounds |-> [st.upper_bounds EXCEPT
                                  ![var_idx] = upper_bounds(st.polyhedron, idx, {})],
             polyhedron |-> red]

\* The state of the loop after the variables iteration_order[d], ...,
\* iteration_order[k], d the length of the order
RECURSIVE ProjectFrom(_, _, _)
ProjectFrom(iteration_space, iteration_order, k) ==
    IF k > Len(iteration_order)
    THEN [err |-> "",
          index_map |-> Indices(Len(iteration_order)),
          lower_bounds |-> [v \in DOMAIN iteration_order |-> <<>>],
          upper_bounds |-> [v \in DOMAIN iteration_order |-> <<>>],
          polyhedron |-> iteration_space]
    ELSE ProjectStep(ProjectFrom(iteration_space, iteration_order, k + 1),
                     iteration_order[k])

\* The projected bounds of every variable, eliminating the variables in the
\* order reversed(iteration_order)
ProjectedBounds(iteration_space, iteration_order) ==
    ProjectFrom(iteration_space, iteration_order, 1)

\* The polyhedron of the rows found for the new order
BoundsPolyhedron(rows, variables) ==
    IF FirstError(rows) # "" THEN Raise(FirstError(rows))
    ELSE Polyhedron([r \in DOMAIN rows |-> rows[r].A],
                    [r \in DOMAIN rows |-> rows[r].b], variables)

\* The rows of the bounds "found" by the projection, in the new order
ReorderedRows(found, iteration_space, iteration_order) ==
    LET d == Len(iteration_order)
        variables ==
            [k \in 1..NCols(iteration_space) |->
                IF k <= d THEN iteration_space.variables[iteration_order[k]]
                ELSE iteration_space.variables[k]]
        rowsOf(new_idx) ==
            LET var_idx == iteration_order[new_idx]
                lbs == found.lower_bounds[var_idx]
                ubs == found.upper_bounds[var_idx]
            IN [k \in 1..Len(lbs) |->
                   generate_entries_for_lower_bound(lbs[k], variables, new_idx)]
               \o
               [k \in 1..Len(ubs) |->
                   Negated(generate_entries_for_lower_bound(ubs[k], variables, new_idx))]
    IN IF found.err # "" THEN Raise(found.err)
       ELSE BoundsPolyhedron(Concat([new_idx \in 1..d |-> rowsOf(new_idx)]), variables)

generate_loop_bounds(iteration_space, iteration_order) ==
    ReorderedRows(ProjectedBounds(iteration_space, iteration_order),
                  iteration_space, iteration_order)

-----------------------------------------------------------------------------
(* loop_interchange *)

\* A loop without its body: Loop(variable, bounds, pragma) and "rest", the
\* nodes of its body other than the nested loop.  A loop nest is the
\* sequence of its loops, outermost first, and the body of the innermost.
Loop(variable, bounds, pragma, rest) ==
    [variable |-> variable, bounds |-> bounds, pragma |-> pragma, rest |-> rest]

LoopNest(loops, body) == [err |-> "", comment |-> <<>>, loops |-> loops, body |-> body]

Reversed(s) == [k \in 1..Len(s) |-> s[Len(s) + 1 - k]]

IndexOf(s, x) == IF x \in Range(s) THEN CHOOSE k \in DOMAIN s : s[k] = x ELSE None

\* Bounds of the loop at position p of the rebuilt nest, with the loop ranges
\* taken in the place of the bounds of every position
BoundsStayInPlace(loop_ranges, iteration_space, loop_order, p, project) ==
    loop_ranges[p]

\* Bounds of the loop at position p of the rebuilt nest
RebuiltBounds(loop_ranges, iteration_space, loop_order, p, project) ==
    IF project
    THEN LET ignore_variables == (p + 1)..Len(loop_order)
             lbs == lower_bounds(iteration_space, p, ignore_variables)
             ubs == upper_bounds(iteration_space, p, ignore_variables)
         IN LoopRange(IF Len(lbs) = 1 THEN lbs[1] ELSE InlineCall("max", lbs),
                      IF Len(ubs) = 1 THEN ubs[1] ELSE InlineCall("min", ubs),
                      NoStep)
    ELSE loop_ranges[loop_order[p]]

\* The nest rebuilt in the new order, given the reordered iteration space
RebuiltNest(nest, depth, names, loop_order, project, iteration_space) ==
    LET loops == SubSeq(nest.loops, 1, depth)
        loop_variables == [k \in 1..depth |-> loops[k].variable]
        loop_ranges == [k \in 1..depth |-> loops[k].bounds]
        outer_loop(p) ==
            [loops[p] EXCEPT
                !.variable = loop_variables[loop_order[p]],
                !.bounds = RebuiltBounds(loop_ranges, iteration_space, loop_order,
                                         p, project),
                !.pragma = IF p = 1 THEN @ \ {"loop-interchange"} ELSE @]
    IN IF project /\ iteration_space.err # "" THEN Raise(iteration_space.err)
       ELSE [err |-> "",
             comment |-> <<loop_variables, names>>,
             loops |-> [p \in 1..Len(nest.loops) |->
                           IF p > depth THEN nest.loops[p] ELSE outer_loop(p)],
             body |-> nest.body]

\* The iteration space of the nest in the new order
ReorderedSpace(space, loop_order) ==
    IF space.err # "" THEN space ELSE generate_loop_bounds(space, loop_order)

\* The interchange of the nest whose variables and ranges are given
InterchangeLoops(nest, depth, loop_variables, loop_ranges, names, project) ==
    LET loop_order == [k \in 1..depth |-> IndexOf(loop_variables, names[k])]
    IN IF \E k \in 1..depth : loop_order[k] = None THEN Raise("ValueError")
       ELSE RebuiltNest(nest, depth, names, loop_order, project,
                        ReorderedSpace(from_loop_ranges(loop_variables, loop_ranges),
                                       loop_order))

loop_interchange(nest, order, project) ==
    LET depth == IF order # <<>> THEN Len(order) ELSE 2
        loop_variables == [k \in 1..depth |-> nest.loops[k].variable]
        loop_ranges == [k \in 1..depth |-> nest.loops[k].bounds]
    IN IF Len(nest.loops) < depth THEN Raise("AssertionError")
       ELSE InterchangeLoops(nest, depth, loop_variables, loop_ranges,
                             IF order # <<>> THEN order ELSE Reversed(loop_variables),
                             project)

-----------------------------------------------------------------------------
(* loop_fusion, for the loops of one fusion group *)

\* symbolic_op(d, op.lt, 0) and the like, for a constant d
symbolic_lt(d, c) == d.c < c
symbolic_ge(d, c) == d.c >= c
symbolic_gt(d, c) == d.c > c
symbolic_le(d, c) == d.c <= c

\* symbolic_op(a, op.ne, b): the expressions differ
symbolic_ne(a, b) == a # b

MergeLowerKeepAll(lower, bound) == Append(lower, bound)

\* The accumulated lower bounds after the candidate "bound"
MergeLower(lower, bound) ==
    LET diff == [k \in DOMAIN lower |-> simplify_difference(bound, lower[k])]
        is_any_negative ==
            \E k \in DOMAIN diff : is_constant(diff[k]) /\ symbolic_lt(diff[k], 0)
        is_any_not_negative ==
            \E k \in DOMAIN diff : is_constant(diff[k]) /\ symbolic_ge(diff[k], 0)
        is_new_bound ==
            \/ lower = <<>>
            \/ is_any_negative
            \/ (~is_constant(bound) /\ ~is_any_not_negative)
        kept == SelectSeq(Indices(Len(lower)),
                          LAMBDA k : ~(is_constant(diff[k]) /\ symbolic_lt(diff[k], 0)))
    IN IF is_new_bound THEN Append([k \in DOMAIN kept |-> lower[kept[k]]], bound)
       ELSE lower

MergeUpperKeepAll(upper, bound) == Append(upper, bound)

\* The accumulated upper bounds after the candidate "bound"
MergeUpper(upper, bound) ==
    LET diff == [k \in DOMAIN upper |-> simplify_difference(bound, upper[k])]
        is_any_positive ==
            \E k \in DOMAIN diff : is_constant(diff[k]) /\ symbolic_gt(diff[k], 0)
        is_any_not_positive ==
            \E k \in DOMAIN diff : is_constant(diff[k]) /\ symbolic_le(diff[k], 0)
        is_new_bound ==
            \/ upper = <<>>
            \/ is_any_positive
            \/ (~is_constant(bound) /\ ~is_any_not_positive)
        kept == SelectSeq(Indices(Len(upper)),
                          LAMBDA k : ~(is_constant(diff[k]) /\ symbolic_gt(diff[k], 0)))
    IN IF is_new_bound THEN Append([k \in DOMAIN kept |-> upper[kept[k]]], bound)
       ELSE upper

\* The lower bounds accumulated from the first k candidates
RECURSIVE FoldLower(_, _)
FoldLower(candidates, k) ==
    IF k = 0 THEN <<>> ELSE MergeLower(FoldLower(candidates, k - 1), candidates[k])

RECURSIVE FoldUpper(_, _)
FoldUpper(candidates, k) ==
    IF k = 0 THEN <<>> ELSE MergeUpper(FoldUpper(candidates, k - 1), candidates[k])

RangeOfBoundsMaxMin(lbs, ubs) ==
    LoopRange(IF Len(lbs) = 1 THEN lbs[1] ELSE InlineCall("max", lbs),
              IF Len(ubs) = 1 THEN ubs[1] ELSE InlineCall("min", ubs),
              NoStep)

\* The range from the accumulated lower and upper bounds
RangeOfBounds(lbs, ubs) ==
    LoopRange(IF Len(lbs) = 1 THEN lbs[1] ELSE InlineCall("min", lbs),
              IF Len(ubs) = 1 THEN ubs[1] ELSE InlineCall("max", ubs),
              NoStep)

\* The lower bounds of "level" accumulated over the candidates
FusedLowerBounds(candidates) == FoldLower(candidates, Len(candidates))

FusedUpperBounds(candidates) == FoldUpper(candidates, Len(candidates))

\* The fused range of one level of the nest
SynthesizedRange(iteration_spaces, level, collapse) ==
    RangeOfBounds(
        FusedLowerBounds(Concat([m \in DOMAIN iteration_spaces |->
            lower_bounds(iteration_spaces[m], level, (level + 1)..collapse)])),
        FusedUpperBounds(Concat([m \in DOMAIN iteration_spaces |->
            upper_bounds(iteration_spaces[m], level, (level + 1)..collapse)])))

Comparison(variable, op, bound) == [variable |-> variable, op |-> op, bound |-> bound]

\* The conditions that guard the body of a member with the given ranges
GuardConditions(ranges, fusion_ranges, fusion_variables) ==
    Concat([q \in DOMAIN ranges |->
              (IF symbolic_ne(ranges[q].start, fusion_ranges[q].start)
               THEN <<Comparison(fusion_variables[q], ">=", ranges[q].start)>>
               ELSE <<>>)
              \o
              (IF symbolic_ne(ranges[q].stop, fusion_ranges[q].stop)
               THEN <<Comparison(fusion_variables[q], "<=", ranges[q].stop)>>
               ELSE <<>>)])

\* The body of a member with its loop variables replaced by the fused ones:
\* var_map holds the variables of the body whose name in lower case is the
\* name of a loop variable that differs from the fused one
SubstituteExpressions(body, variables, fusion_variables) ==
    [body EXCEPT !.variables =
        [u \in DOMAIN body.variables |->
            IF \E q \in DOMAIN variables :
                   /\ variables[q] # fusion_variables[q]
                   /\ Lower(body.variables[u]) = variables[q]
            THEN fusion_variables[CHOOSE q \in DOMAIN variables :
                                      /\ variables[q] # fusion_variables[q]
                                      /\ Lower(body.variables[u]) = variables[q]]
            ELSE body.variables[u]]]

\* A loop of a fusion group: the nest below the annotated loop, the pragma
\* parameters collapse ("none" when absent) and range (<<>> when absent)
FusionMember(loops, body, collapse, range) ==
    [loops |-> loops, body |-> body, collapse |-> collapse, range |-> range]

CollapseDepth(collapse) ==
    CASE collapse = "none" -> 1 [] collapse = "1" -> 1 [] collapse = "2" -> 2

\* The fused loop and the guarded bodies of the members
FusedLoop(members, collapse, loop_variables, loop_ranges, fusion_ranges) ==
    [err |-> "",
     loops |-> [q \in 1..collapse |->
                   Loop(loop_variables[1][q], fusion_ranges[q], {}, "")],
     bodies |-> [m \in DOMAIN members |->
                    [conditions |-> GuardConditions(loop_ranges[m], fusion_ranges,
                                                    loop_variables[1]),
                     body |-> SubstituteExpressions(members[m].body,
                                                    loop_variables[m],
                                                    loop_variables[1])]]]

\* The range of the fused loop at every level
FusionRanges(range_set, iteration_spaces, collapse) ==
    IF range_set # {} THEN CHOOSE r \in range_set : TRUE
    ELSE [level \in 1..collapse |->
             SynthesizedRange(iteration_spaces, level, collapse)]

\* The fusion of members whose nests are at least "collapse" deep
FuseNests(members, collapse, range_set, loop_variables, loop_ranges, spaces) ==
    IF FirstError(spaces) # "" THEN Raise(FirstError(spaces))
    ELSE FusedLoop(members, collapse, loop_variables, loop_ranges,
                   FusionRanges(range_set, spaces, collapse))

\* The fusion of members that agree on collapse
FuseGroup(members, collapse, range_set) ==
    IF Cardinality(range_set) > 1 THEN Raise("RuntimeError")
    ELSE IF \E m \in DOMAIN members : Len(members[m].loops) < collapse
    THEN Raise("AssertionError")
    ELSE FuseNests(members, collapse, range_set,
                   [m \in DOMAIN members |->
                       [q \in 1..collapse |-> members[m].loops[q].variable]],
                   [m \in DOMAIN members |->
                       [q \in 1..collapse |-> members[m].loops[q].bounds]],
                   [m \in DOMAIN members |->
                       from_loop_ranges(
                           [q \in 1..collapse |-> members[m].loops[q].variable],
                           [q \in 1..collapse |-> members[m].loops[q].bounds])])

loop_fusion(members) ==
    IF \E m \in DOMAIN members : members[m].collapse # members[1].collapse
    THEN Raise("RuntimeError")
    ELSE FuseGroup(members, CollapseDepth(members[1].collapse),
                   {members[m].range : m \in DOMAIN members} \ {<<>>})

-----------------------------------------------------------------------------
(* loop_fission: FissionTransformer.visit_Loop over a loop whose body holds *)
(* statements, loop-fission pragmas, conditionals and loops of these.      *)

\* A node of the tree.  id is its position in the tree (<<>> for the
\* outermost loop); collapse is the parameter of a loop-fission pragma;
\* variable and bounds are those of a loop.
Node(kind, id, collapse, body, variable, bounds) ==
    [kind |-> kind, id |-> id, collapse |-> collapse, body |-> body,
     variable |-> variable, bounds |-> bounds]

Statement(id) == Node("stmt", id, 0, <<>>, "", <<>>)
Pragma(id, collapse) == Node("pragma", id, collapse, <<>>, "", <<>>)
Conditional(id, body) == Node("cond", id, 0, body, "", <<>>)
Comment(id) == Node("comment", id, 0, <<>>, "", <<>>)
FissionLoop(id, variable, bounds, body) == Node("loop", id, 0, body, variable, bounds)

\* The nodes one level below the given nodes, in source order; a node
\* without a body stands for itself
Leaves(nodes) ==
    Concat([p \in DOMAIN nodes |->
               IF nodes[p].kind \in {"cond", "loop"} THEN nodes[p].body
               ELSE <<nodes[p]>>])

\* pragma_loops: every pragma in the body of the outermost loop, in source
\* order, with the loops that enclose it, outermost first
pragma_loops(top) ==
    Concat([p \in DOMAIN top.body |->
        IF top.body[p].kind = "pragma"
        THEN <<[pragma |-> top.body[p], loops |-> <<top.id>>]>>
        ELSE LET inside == SelectSeq(top.body[p].body, LAMBDA x : x.kind = "pragma")
             IN [c \in DOMAIN inside |->
                    [pragma |-> inside[c],
                     loops |-> IF top.body[p].kind = "loop"
                               THEN <<top.id, top.body[p].id>> ELSE <<top.id>>]]])

\* loop_pragmas[o]: the pragmas that split the loop o, the loop number
\* collapse, counted outwards, of those that enclose the pragma
loop_pragmas(top, o) ==
    LET found == SelectSeq(pragma_loops(top),
            LAMBDA e : e.loops[Len(e.loops) + 1 - e.pragma.collapse] = o.id)
    IN [k \in DOMAIN found |-> found[k].pragma.id]

\* The traversal state of the masked transformer; start and stop hold the
\* pragmas that switch the traversal on and off
MaskState(active, start, stop) == [active |-> active, start |-> start, stop |-> stop]

\* Visit of a statement or pragma: a start node switches the traversal on
\* once every start node has been met and is mapped to nothing, a stop node
\* switches it off and clears the start nodes, any other node is kept while
\* the traversal is on
VisitLeaf(st, o) ==
    IF o.id \in st.start
    THEN [st |-> MaskState(st.active \/ st.start = {o.id}, st.start \ {o.id}, st.stop),
          out |-> <<>>]
    ELSE IF o.id \in st.stop
    THEN [st |-> MaskState(FALSE, {}, st.stop), out |-> <<>>]
    ELSE [st |-> st, out |-> IF st.active THEN <<o>> ELSE <<>>]

\* Visit of the first k nodes of the body of a conditional or inner loop
RECURSIVE VisitLeaves(_, _, _)
VisitLeaves(nodes, k, st) ==
    IF k = 0 THEN [st |-> st, out |-> <<>>]
    ELSE LET prev == VisitLeaves(nodes, k - 1, st)
             this == VisitLeaf(prev.st, nodes[k])
         IN [st |-> this.st, out |-> prev.out \o this.out]

\* Visit of a conditional or of a loop that no pragma splits: rebuilt around
\* what the traversal keeps of its body, dropped when nothing is kept
VisitScope(st, o) ==
    LET inside == VisitLeaves(o.body, Len(o.body), st)
    IN [st |-> inside.st,
        out |-> IF inside.out = <<>> THEN <<>> ELSE <<[o EXCEPT !.body = inside.out]>>]

\* No pragma: the start_node or stop_node None
NoNode == <<0>>

BranchOfAnyBody(o, start_node, body) ==
    (IF start_node = NoNode THEN <<>> ELSE <<Comment(start_node)>>)
    \o <<[o EXCEPT !.body = body]>>

\* The rebuilt loop of a non-empty body, after the comment of its start node
BranchOf(o, start_node, body) ==
    IF body = <<>> THEN <<>>
    ELSE (IF start_node = NoNode THEN <<>> ELSE <<Comment(start_node)>>)
         \o <<[o EXCEPT !.body = body]>>

\* The state in which rebuild_fission_branch visits the body, st the state
\* saved on entering the loop
BranchState(st, start_node, stop_node) ==
    MaskState(IF start_node = NoNode THEN st.active ELSE FALSE,
              IF start_node = NoNode THEN st.start ELSE st.start \cup {start_node},
              IF stop_node = NoNode THEN st.stop ELSE st.stop \cup {stop_node})

\* The (start, stop) pairs of the subtrees: up to the first pragma, between
\* consecutive pragmas, from the last pragma
FissionWindows(pragmas) ==
    [w \in 1..(Len(pragmas) + 1) |->
        <<IF w = 1 THEN NoNode ELSE pragmas[w - 1],
          IF w = Len(pragmas) + 1 THEN NoNode ELSE pragmas[w]>>]

\* The nodes that replace a split loop whose subtrees have been visited, and
\* the state after it: start and stop restored, active as the last subtree
\* left it
Rebuilt(o, st, windows, visited) ==
    [st |-> MaskState(visited[Len(visited)].st.active, st.start, st.stop),
     out |-> Concat([w \in DOMAIN windows |->
                        BranchOf(o, windows[w][1], visited[w].out)])]

\* visit_Loop of an inner loop that its pragmas split
VisitSplitLoop(st, o, windows) ==
    IF ~(st.active \/ st.start # {}) THEN [st |-> st, out |-> <<>>]
    ELSE Rebuilt(o, st, windows,
                 [w \in DOMAIN windows |->
                     VisitLeaves(o.body, Len(o.body),
                                 BranchState(st, windows[w][1], windows[w][2]))])

\* Visit of a node of the body of the outermost loop
VisitNode(top, st, o) ==
    IF o.kind = "cond" THEN VisitScope(st, o)
    ELSE IF o.kind = "loop"
    THEN IF loop_pragmas(top, o) = <<>> THEN VisitScope(st, o)
         ELSE VisitSplitLoop(st, o, FissionWindows(loop_pragmas(top, o)))
    ELSE VisitLeaf(st, o)

\* Visit of the first k nodes of the body of the outermost loop
RECURSIVE VisitBody(_, _, _)
VisitBody(top, k, st) ==
    IF k = 0 THEN [st |-> st, out |-> <<>>]
    ELSE LET prev == VisitBody(top, k - 1, st)
             this == VisitNode(top, prev.st, top.body[k])
         IN [st |-> this.st, out |-> prev.out \o this.out]

\* The subtree of the outermost loop from start_node to stop_node; the
\* transformer starts active, with no start or stop node
rebuild_fission_branch(o, start_node, stop_node) ==
    BranchOf(o, start_node,
             VisitBody(o, Len(o.body),
                       BranchState(MaskState(TRUE, {}, {}), start_node, stop_node)).out)

\* The nodes that replace the outermost loop when pragmas split it
SplitAt(o, windows) ==
    Concat([w \in DOMAIN windows |->
               rebuild_fission_branch(o, windows[w][1], windows[w][2])])

\* The nodes that replace the outermost loop
visit_Loop(o) ==
    IF loop_pragmas(o, o) = <<>>
    THEN <<[o EXCEPT !.body = VisitBody(o, Len(o.body), MaskState(TRUE, {}, {})).out]>>
    ELSE SplitAt(o, FissionWindows(loop_pragmas(o, o)))

\* The routine body after loop_fission, for a body that is the loop o
loop_fission(o) == [err |-> "", nodes |-> visit_Loop(o)]

-----------------------------------------------------------------------------
(* Specification of eliminate_variable over bounded polyhedra *)

ElimVariables == <<"x", "y">>

Coefs == -MaxCoef..MaxCoef
Rhs == -MaxRhs..MaxRhs
RowsOf(d) == [A : [1..d -> Coefs], b : Rhs]

InitElim ==
    /\ polyhedron = Polyhedron(<<>>, <<>>, ElimVariables)
    /\ index = 0
    /\ reduced = NotRun
    /\ loop_nest = NotRun /\ var_order = <<>> /\ project_bounds = FALSE
    /\ interchanged = NotRun
    /\ loop_list = <<>> /\ fusion = NotRun
    /\ fission_loop = NotRun /\ rebuilt = NotRun
    /\ promotion = NotRun /\ requested = <<>>
    /\ routine = NotRun /\ outcome = NotRun

\* The caller builds the system row by row
AddRow ==
    /\ reduced = NotRun
    /\ NRows(polyhedron) < MaxRows
    /\ \E row \in RowsOf(NCols(polyhedron)) :
          polyhedron' = Polyhedron(Append(polyhedron.A, row.A),
                                   Append(polyhedron.b, row.b),
                                   polyhedron.variables)
    /\ UNCHANGED <<index, reduced, interVars, fusionVars, fissionVars,
                   promotionVars, routineVars>>

Eliminate ==
    /\ reduced = NotRun
    /\ \E j \in 1..NCols(polyhedron) :
          /\ index' = j
          /\ reduced' = eliminate_variable(polyhedron, j)
    /\ UNCHANGED <<polyhedron, interVars, fusionVars, fissionVars,
                   promotionVars, routineVars>>

NextElim == AddRow \/ Eliminate

SpecElim == InitElim /\ [][NextElim]_vars

-----------------------------------------------------------------------------
(* Claims about eliminate_variable *)

Points(d) == [1..d -> -MaxPt..MaxPt]

\* Values of the eliminated coordinate that can matter for points of Points(d):
\* a bound on it is (b - a.y) / a_j with |b| <= MaxRhs and |a_k|,|y_k| bounded
VRange(d) ==
    LET m == MaxRhs + MaxCoef * MaxPt * (d - 1) IN -m..m

Eliminated == reduced # NotRun /\ reduced.err = ""

\* C1: soundness of the elimination: every point of P, with coordinate j
\* dropped, satisfies every row of eliminate_variable(P, j).
C1_EliminationSound ==
    Eliminated =>
        \A x \in Points(NCols(polyhedron)) :
            Satisfies(polyhedron, x) => Satisfies(reduced, DropAt(x, index))

\* A system with a lower bound, an upper bound and a row without x_j has been
\* projected, and it has points
C1_Witness ==
    /\ Eliminated
    /\ Len(L(polyhedron, index)) > 0
    /\ Len(U(polyhedron, index)) > 0
    /\ Len(Z(polyhedron, index)) > 0
    /\ \E x \in Points(NCols(polyhedron)) : Satisfies(polyhedron, x)

\* y is the projection of an integer point of P
Realizable(y) ==
    \E v \in VRange(NCols(polyhedron)) :
        Satisfies(polyhedron, InsertAt(y, index, v))

\* C2 as stated: completeness over the integers: every integer point of
\* eliminate_variable(P, j) is the projection of an integer point of P.
C2_EliminationCompleteInt ==
    Eliminated =>
        \A y \in Points(NCols(polyhedron) - 1) :
            Satisfies(reduced, y) => Realizable(y)

\* Every entry of column j is -1, 0 or 1
UnitColumn(P, j) == \A i \in 1..NRows(P) : Abs(P.A[i][j]) <= 1

\* C2 amended: completeness over the integers when every entry of column j
\* of A is -1, 0 or 1: then every integer point of eliminate_variable(P, j)
\* is the projection of an integer point of P.
C2_EliminationCompleteUnit ==
    (Eliminated /\ UnitColumn(polyhedron, index)) =>
        \A y \in Points(NCols(polyhedron) - 1) :
            Satisfies(reduced, y) => Realizable(y)

\* A unit column with lower and upper bounds has been eliminated and the
\* projection has a point
C2_Witness ==
    /\ Eliminated
    /\ UnitColumn(polyhedron, index)
    /\ Len(L(polyhedron, index)) > 0
    /\ Len(U(polyhedron, index)) > 0
    /\ Len(Z(polyhedron, index)) > 0
    /\ \E y \in Points(NCols(polyhedron) - 1) : Satisfies(reduced, y)

-----------------------------------------------------------------------------
(* Specification of loop_interchange over bounded loop nests *)

NonZeroCoefs == (-MaxBoundCoef..MaxBoundCoef) \ {0}

\* Bounds "c" and "a*v + c" with v among the variables V
BoundsOver(V) ==
    {IntLiteral(c) : c \in 0..MaxConst}
    \cup {Affine(c, Term(a, v)) : c \in 0..MaxConst, a \in NonZeroCoefs, v \in V}

RangesOver(V) == {LoopRange(lo, hi, NoStep) : lo \in BoundsOver(V), hi \in BoundsOver(V)}

\* do i = .., ..; do j = .., ..: the bounds of j may depend on i
Nests2 ==
    {LoopNest(<<Loop("i", r1, {"loop-interchange", "other"}, "rest1"),
                Loop("j", r2, {"inner"}, "rest2")>>, "body")
     : r1 \in RangesOver({"n"}), r2 \in RangesOver({"i", "n"})}

\* Bounds of the loops of the three-deep nests: 1 or an outer variable below,
\* n or an outer variable above
StartsIn(V) == {IntLiteral(1)} \cup {Scalar(v) : v \in V}
StopsIn(V) == {Scalar("n")} \cup {Scalar(v) : v \in V}
RangesIn(V) == {LoopRange(lo, hi, NoStep) : lo \in StartsIn(V), hi \in StopsIn(V)}

Nests3 ==
    {LoopNest(<<Loop("i", r1, {"loop-interchange"}, "rest1"),
                Loop("j", r2, {}, "rest2"),
                Loop("k", r3, {"inner"}, "rest3")>>, "body")
     : r1 \in RangesIn({}), r2 \in RangesIn({"i"}), r3 \in RangesIn({"i", "j"})}

Orderings(s) ==
    {p \in [DOMAIN s -> Range(s)] : \A k, m \in DOMAIN s : k # m => p[k] # p[m]}

\* The orders a pragma may give for a nest: none, or a permutation of the
\* variables of the nest
OrdersOf(nest) ==
    LET variables == [k \in DOMAIN nest.loops |-> nest.loops[k].variable]
    IN {<<>>} \cup Orderings(variables)

InitInterchange ==
    /\ loop_nest \in Nests2 \cup Nests3
    /\ var_order \in OrdersOf(loop_nest)
    /\ project_bounds \in BOOLEAN
    /\ interchanged = NotRun
    /\ polyhedron = NotRun /\ index = 0 /\ reduced = NotRun
    /\ loop_list = <<>> /\ fusion = NotRun
    /\ fission_loop = NotRun /\ rebuilt = NotRun
    /\ promotion = NotRun /\ requested = <<>>
    /\ routine = NotRun /\ outcome = NotRun

Interchange ==
    /\ interchanged = NotRun
    /\ interchanged' = loop_interchange(loop_nest, var_order, project_bounds)
    /\ UNCHANGED <<loop_nest, var_order, project_bounds, elimVars, fusionVars,
                   fissionVars, promotionVars, routineVars>>

NextInterchange == Interchange

SpecInterchange == InitInterchange /\ [][NextInterchange]_vars

-----------------------------------------------------------------------------
(* Claims about loop_interchange *)

SymValues == 0..MaxSym

\* The values of all variables before the nest runs, with n = s
EnvOf(s) == [name \in Names |-> IF name = "n" THEN s ELSE 0]

\* The values a loop gives its variable when the variables have the given values
LoopValues(loop, values) ==
    Eval(loop.bounds.start, values)..Eval(loop.bounds.stop, values)

Assign(values, loop, val) == [values EXCEPT ![loop.variable] = val]

\* The iteration points of the loops k, k+1, ... when the loops outside them
\* have reached the assignments of envs: one assignment of the variables per
\* execution of the innermost body
RECURSIVE Iterations(_, _, _)
Iterations(loops, k, envs) ==
    IF k > Len(loops) THEN envs
    ELSE Iterations(loops, k + 1,
                    UNION {{Assign(env, loops[k], val) : val \in LoopValues(loops[k], env)}
                           : env \in envs})

IterationSet(loops, s) == Iterations(loops, 1, {EnvOf(s)})

Interchanged == interchanged # NotRun /\ interchanged.err = ""

\* C3: interchange with bound projection preserves the iteration set: the
\* nest produced executes the same iteration points as the original nest, for
\* every value of the free symbol.
C3_ProjectionPreservesIterations ==
    (Interchanged /\ project_bounds) =>
        \A s \in SymValues :
            IterationSet(interchanged.loops, s) = IterationSet(loop_nest.loops, s)

\* A triangular nest (the inner bound depends on the outer variable) has been
\* interchanged with projection and executes iterations
C3_Witness ==
    /\ Interchanged /\ project_bounds
    /\ FindVariables(loop_nest.loops[2].bounds.stop) = {"i"}
    /\ interchanged.loops[1].variable = "j"
    /\ \E s \in SymValues : Cardinality(IterationSet(loop_nest.loops, s)) > 2

NestVariables == [k \in DOMAIN loop_nest.loops |-> loop_nest.loops[k].variable]

\* C4 as stated: with an order list equal to the current order, with or
\* without projection, the interchange completes and leaves every loop's
\* variable, bounds and body unchanged; only the directive is removed.
C4_InterchangeIdempotent ==
    (interchanged # NotRun /\ var_order = NestVariables) =>
        /\ interchanged.err = ""
        /\ interchanged.body = loop_nest.body
        /\ \A p \in DOMAIN loop_nest.loops :
              /\ interchanged.loops[p].variable = loop_nest.loops[p].variable
              /\ interchanged.loops[p].bounds = loop_nest.loops[p].bounds
              /\ interchanged.loops[p].rest = loop_nest.loops[p].rest
              /\ interchanged.loops[p].pragma =
                     loop_nest.loops[p].pragma \ {"loop-interchange"}

\* The order the interchange is to establish
RequestedOrder ==
    IF var_order # <<>> THEN var_order
    ELSE Reversed(SubSeq(NestVariables, 1, 2))

OriginalBounds(v) ==
    loop_nest.loops[CHOOSE k \in DOMAIN loop_nest.loops :
                        loop_nest.loops[k].variable = v].bounds

\* C5: interchange without projection: position p of the rewritten nest has
\* the p-th variable of the order with that variable's original bounds, and
\* the body and every other field of every loop are unchanged.
C5_InterchangePermutes ==
    (interchanged # NotRun /\ ~project_bounds) =>
        /\ interchanged.err = ""
        /\ interchanged.body = loop_nest.body
        /\ Len(interchanged.loops) = Len(loop_nest.loops)
        /\ \A p \in DOMAIN loop_nest.loops :
              /\ interchanged.loops[p].rest = loop_nest.loops[p].rest
              /\ interchanged.loops[p].pragma =
                     loop_nest.loops[p].pragma \ {"loop-interchange"}
              /\ IF p <= Len(RequestedOrder)
                 THEN /\ interchanged.loops[p].variable = RequestedOrder[p]
                      /\ interchanged.loops[p].bounds = OriginalBounds(RequestedOrder[p])
                 ELSE /\ interchanged.loops[p].variable = loop_nest.loops[p].variable
                      /\ interchanged.loops[p].bounds = loop_nest.loops[p].bounds

\* A three-deep nest has been rotated without projection
C5_Witness ==
    /\ Interchanged /\ ~project_bounds
    /\ var_order = <<"k", "i", "j">>
    /\ loop_nest.loops[3].bounds.start = Scalar("j")

-----------------------------------------------------------------------------
(* Specification of loop_fusion over bounded fusion groups *)

\* Bounds of the loops to fuse: constants, n and n + 1
FusionBounds ==
    {IntLiteral(c) : c \in 1..MaxFusionConst}
    \cup {Affine(c, Term(1, "n")) : c \in 0..1}

FusionRangesOf(los, his) == {LoopRange(lo, hi, NoStep) : lo \in los, hi \in his}

\* The innermost body of member m, which refers to the member's loop variables
Body(m, variables) == [id |-> m, variables |-> variables]

\* do v = ..., ... with !$loki loop-fusion
Member1(m, v, r) ==
    FusionMember(<<Loop(v, r, {"loop-fusion"}, "")>>, Body(m, <<v>>), "none", <<>>)

\* do vs[1] = ...; do vs[2] = ... with !$loki loop-fusion collapse(2)
Member2(m, vs, r1, r2) ==
    FusionMember(<<Loop(vs[1], r1, {"loop-fusion"}, "rest"), Loop(vs[2], r2, {}, "")>>,
                 Body(m, vs), "2", <<>>)

Ranges1 == FusionRangesOf(FusionBounds, FusionBounds)

\* Groups of two loops, the second with the same or another variable, and of
\* three loops
Groups1 ==
    {<<Member1(1, "i", r1), Member1(2, v, r2)>>
        : r1 \in Ranges1, r2 \in Ranges1, v \in {"i", "k"}}
    \cup {<<Member1(1, "i", r1), Member1(2, "i", r2), Member1(3, "i", r3)>>
        : r1 \in Ranges1, r2 \in Ranges1, r3 \in Ranges1}

OuterRanges ==
    FusionRangesOf({IntLiteral(1), IntLiteral(2)},
                   {Scalar("n"), IntLiteral(MaxFusionConst)})

\* Ranges of an inner loop below the loop of variable v
InnerRanges(v) ==
    FusionRangesOf({IntLiteral(1), Scalar(v)},
                   {Scalar("n"), Scalar(v), IntLiteral(MaxFusionConst),
                    IntLiteral(MaxFusionConst - 1)})

Nests2Of(m, vs) ==
    {Member2(m, vs, r1, r2) : r1 \in OuterRanges, r2 \in InnerRanges(vs[1])}

\* Groups of two nests fused with collapse(2)
Groups2 ==
    {<<m1, m2>> : m1 \in Nests2Of(1, <<"i", "j">>),
                  m2 \in Nests2Of(2, <<"i", "j">>) \cup Nests2Of(2, <<"k", "l">>)}

InitFusion ==
    /\ loop_list \in Groups1 \cup Groups2
    /\ fusion = NotRun
    /\ polyhedron = NotRun /\ index = 0 /\ reduced = NotRun
    /\ loop_nest = NotRun /\ var_order = <<>> /\ project_bounds = FALSE
    /\ interchanged = NotRun
    /\ fission_loop = NotRun /\ rebuilt = NotRun
    /\ promotion = NotRun /\ requested = <<>>
    /\ routine = NotRun /\ outcome = NotRun

Fuse ==
    /\ fusion = NotRun
    /\ fusion' = loop_fusion(loop_list)
    /\ UNCHANGED <<loop_list, elimVars, interVars, fissionVars,
                   promotionVars, routineVars>>

NextFusion == Fuse

SpecFusion == InitFusion /\ [][NextFusion]_vars

-----------------------------------------------------------------------------
(* Claims about loop_fusion *)

Fused == fusion # NotRun /\ fusion.err = ""

FusionVariables == [q \in DOMAIN fusion.loops |-> fusion.loops[q].variable]

\* The variables the fused loop reads without assigning them
StaleVariables ==
    (UNION {FindVariables(fusion.loops[q].bounds.start)
            \cup FindVariables(fusion.loops[q].bounds.stop)
            \cup UNION {FindVariables(fusion.loops[q].bounds.start.args[a])
                        : a \in DOMAIN fusion.loops[q].bounds.start.args}
            \cup UNION {FindVariables(fusion.loops[q].bounds.stop.args[a])
                        : a \in DOMAIN fusion.loops[q].bounds.stop.args}
            : q \in DOMAIN fusion.loops}
     \cup UNION {UNION {FindVariables(fusion.bodies[m].conditions[c].bound)
                        : c \in DOMAIN fusion.bodies[m].conditions}
                 : m \in DOMAIN fusion.bodies})
    \ (Range(FusionVariables) \cup {"n"})

\* The values of the variables before the fused loop runs, with n = s: a
\* variable the loop does not assign holds whatever earlier code left in it
FusionEnvs(s) ==
    {[name \in Names |-> IF name = "n" THEN s
                         ELSE IF name \in StaleVariables THEN f[name] ELSE 0]
     : f \in [StaleVariables -> SymValues]}

\* The values the loops give their variables at an iteration
PointOf(loops, values) == [q \in DOMAIN loops |-> values[loops[q].variable]]

\* The iteration points of a member, for n = s
MemberPoints(m, s) ==
    {PointOf(loop_list[m].loops, values)
     : values \in IterationSet(loop_list[m].loops, s)}

\* The iterations of the fused loop started with the given values
FusedIterations(values) == Iterations(fusion.loops, 1, {values})

\* The point lies in the original range of member m at every level
InMemberRange(m, pt, s) ==
    LET loops == loop_list[m].loops
        values == [name \in Names |->
                      IF \E q \in DOMAIN pt : loops[q].variable = name
                      THEN pt[CHOOSE q \in DOMAIN pt : loops[q].variable = name]
                      ELSE EnvOf(s)[name]]
    IN \A q \in DOMAIN pt : pt[q] \in LoopValues(loops[q], values)

ConditionHolds(c, values) ==
    IF c.op = ">=" THEN values[c.variable] >= Eval(c.bound, values)
    ELSE values[c.variable] <= Eval(c.bound, values)

\* The fused loop executes the body of member m at the iteration
Executes(m, values) ==
    \A c \in DOMAIN fusion.bodies[m].conditions :
        ConditionHolds(fusion.bodies[m].conditions[c], values)

\* C6 as stated: when no range is given with the directive, every iteration
\* of every member lies in the fused range, whatever the order of the members
\* and for constant as well as symbolic bounds.
C6_FusionCoversMembers ==
    Fused =>
        \A s \in SymValues : \A values \in FusionEnvs(s) :
            \A m \in DOMAIN loop_list :
                MemberPoints(m, s) \subseteq
                    {PointOf(fusion.loops, it) : it \in FusedIterations(values)}

\* C7 as stated: the body of a member is not executed at a fused iteration
\* that lies outside the original range of the member at any level.
C7_GuardExcludesOutside ==
    Fused =>
        \A s \in SymValues : \A values \in FusionEnvs(s) :
            \A it \in FusedIterations(values) : \A m \in DOMAIN loop_list :
                Executes(m, it) => InMemberRange(m, PointOf(fusion.loops, it), s)

AllConstant ==
    \A m \in DOMAIN loop_list : \A q \in DOMAIN loop_list[m].loops :
        /\ is_constant(loop_list[m].loops[q].bounds.start)
        /\ is_constant(loop_list[m].loops[q].bounds.stop)

MinStart(q) == SetMin({loop_list[m].loops[q].bounds.start.c : m \in DOMAIN loop_list})
MaxStop(q) == SetMax({loop_list[m].loops[q].bounds.stop.c : m \in DOMAIN loop_list})

\* The guard of a member of constant ranges: its own start where that is not
\* the smallest, its own stop where that is not the largest
ExpectedConditions(m) ==
    Concat([q \in DOMAIN fusion.loops |->
              (IF loop_list[m].loops[q].bounds.start.c # MinStart(q)
               THEN <<Comparison(fusion.loops[q].variable, ">=",
                                 loop_list[m].loops[q].bounds.start)>>
               ELSE <<>>)
              \o
              (IF loop_list[m].loops[q].bounds.stop.c # MaxStop(q)
               THEN <<Comparison(fusion.loops[q].variable, "<=",
                                 loop_list[m].loops[q].bounds.stop)>>
               ELSE <<>>)])

\* C8: members with constant ranges fuse into the range from the smallest
\* start to the largest stop, and a member is guarded exactly where its own
\* start or stop differs from the fused one.
C8_ConstantRangesFuse ==
    (fusion # NotRun /\ AllConstant) =>
        /\ fusion.err = ""
        /\ \A q \in DOMAIN fusion.loops :
              fusion.loops[q].bounds =
                  LoopRange(IntLiteral(MinStart(q)), IntLiteral(MaxStop(q)), NoStep)
        /\ \A m \in DOMAIN loop_list :
              fusion.bodies[m].conditions = ExpectedConditions(m)

\* Loops 1..2 and 2..3 have been fused into 1..3 with the guards i <= 2 and
\* i >= 2
C8_Witness ==
    /\ Fused /\ AllConstant /\ Len(loop_list) = 2
    /\ loop_list[1].loops[1].bounds = LoopRange(IntLiteral(1), IntLiteral(2), NoStep)
    /\ loop_list[2].loops[1].bounds = LoopRange(IntLiteral(2), IntLiteral(3), NoStep)
    /\ fusion.loops[1].bounds = LoopRange(IntLiteral(1), IntLiteral(3), NoStep)
    /\ fusion.bodies[1].conditions = <<Comparison("i", "<=", IntLiteral(2))>>
    /\ fusion.bodies[2].conditions = <<Comparison("i", ">=", IntLiteral(2))>>

-----------------------------------------------------------------------------
(* Specification of loop_fission over bounded loop bodies *)

\* What a node of the body is: a statement, a pragma, a conditional of
\* statements and pragmas, or a loop of statements, pragmas and pragmas with
\* collapse(2)
NodeShapes ==
    {[kind |-> k, body |-> <<>>] : k \in {"stmt", "pragma"}}
    \cup {[kind |-> "cond", body |-> b]
          : b \in UNION {[1..n -> {"stmt", "pragma"}] : n \in 1..MaxScopeLen}}
    \cup {[kind |-> "loop", body |-> b]
          : b \in UNION {[1..n -> {"stmt", "pragma", "pragma2"}] : n \in 1..MaxScopeLen}}

\* The statement or pragma of the given shape
LeafOf(shape, id) ==
    IF shape = "stmt" THEN Statement(id)
    ELSE Pragma(id, IF shape = "pragma2" THEN 2 ELSE 1)

\* The nodes of the given shapes, each identified by its position
NodesOf(shapes) ==
    [p \in DOMAIN shapes |->
        IF shapes[p].kind = "cond"
        THEN Conditional(<<p>>, [c \in DOMAIN shapes[p].body |->
                                    LeafOf(shapes[p].body[c], <<p, c>>)])
        ELSE IF shapes[p].kind = "loop"
        THEN FissionLoop(<<p>>, "k", LoopRange(IntLiteral(1), Scalar("n"), NoStep),
                         [c \in DOMAIN shapes[p].body |->
                             LeafOf(shapes[p].body[c], <<p, c>>)])
        ELSE LeafOf(shapes[p].kind, <<p>>)]

Bodies == {NodesOf(shapes) : shapes \in UNION {[1..n -> NodeShapes] : n \in 1..MaxBodyLen}}

FissionLoops ==
    {FissionLoop(<<>>, "i", LoopRange(IntLiteral(1), Scalar("n"), NoStep), body)
     : body \in Bodies}

InitFission ==
    /\ fission_loop \in FissionLoops
    /\ rebuilt = NotRun
    /\ polyhedron = NotRun /\ index = 0 /\ reduced = NotRun
    /\ loop_nest = NotRun /\ var_order = <<>> /\ project_bounds = FALSE
    /\ interchanged = NotRun
    /\ loop_list = <<>> /\ fusion = NotRun
    /\ promotion = NotRun /\ requested = <<>>
    /\ routine = NotRun /\ outcome = NotRun

Fission ==
    /\ rebuilt = NotRun
    /\ rebuilt' = loop_fission(fission_loop)
    /\ UNCHANGED <<fission_loop, elimVars, interVars, fusionVars,
                   promotionVars, routineVars>>

NextFission == Fission

SpecFission == InitFission /\ [][NextFission]_vars

-----------------------------------------------------------------------------
(* Claims about loop_fission *)

\* The statements and pragmas of the given loops, in source order
DeepLeaves(loops) == Leaves(Leaves(loops))

StatementsOf(loops) == SelectSeq(DeepLeaves(loops), LAMBDA x : x.kind = "stmt")

\* The pragmas that split the outermost loop
TopPragmas == loop_pragmas(fission_loop, fission_loop)

\* The outermost loop has been split at its pragmas
Split == rebuilt # NotRun /\ TopPragmas # <<>>

SegmentLoops == SelectSeq(rebuilt.nodes, LAMBDA x : x.kind = "loop")

\* The statements and pragmas in the bodies of the emitted loops, without
\* the comments that mark where a loop was split
EmittedLeaves == SelectSeq(DeepLeaves(SegmentLoops), LAMBDA x : x.kind # "comment")

\* C9 as stated: the bodies of the loops a split emits, concatenated in
\* order, hold the statements of the original body in their order, each
\* once, and none of the pragmas.
C9_FissionConcatenation ==
    Split => EmittedLeaves = StatementsOf(<<fission_loop>>)

\* Some loop inside the outermost loop is split by pragmas of its own
NestedSplit ==
    \E p \in DOMAIN fission_loop.body :
        /\ fission_loop.body[p].kind = "loop"
        /\ loop_pragmas(fission_loop, fission_loop.body[p]) # <<>>

\* The statements of segment w of the body: after pragma w - 1 and before
\* pragma w of the pragmas that split the outermost loop, in source order
SegmentStatements(w) ==
    LET leaves == DeepLeaves(<<fission_loop>>)
        splits == {TopPragmas[k] : k \in DOMAIN TopPragmas}
        pragmasBefore(x) ==
            Cardinality({y \in 1..(x - 1) : leaves[y].id \in splits})
    IN SelectSeq([x \in DOMAIN leaves |-> [leaf |-> leaves[x], at |-> x]],
                 LAMBDA e : e.leaf.kind = "stmt" /\ pragmasBefore(e.at) = w - 1)

NonEmptySegments == {w \in 1..(Len(TopPragmas) + 1) : SegmentStatements(w) # <<>>}

-----------------------------------------------------------------------------
(* get_promotion_dimensions: the sizes and indices of promoted variables *)

PromoNames == {"a", "b"}

\* symbolic_op(a, op.lt, b) for two sizes: integers compare by value, equal
\* expressions are not less; for other operands the answer of the
\* expression library is the given one
symbolic_op_lt(a, b, oracle) ==
    IF is_constant(a) /\ is_constant(b) THEN a.c < b.c
    ELSE IF a = b THEN FALSE
    ELSE IF is_constant(a) THEN oracle.const_sym ELSE oracle.sym_const

\* promotion_vars_dims and promotion_vars_index before the first marker.
\* dims maps a variable to the list object that holds its sizes (0: not
\* marked for promotion), lists holds the list objects
NoPromotion(oracle) ==
    [err |-> "", oracle |-> oracle,
     dims |-> [v \in PromoNames |-> 0], lists |-> <<>>,
     index |-> [v \in PromoNames |-> <<>>]]

\* The sizes recorded for a variable
DimsOf(p, var_name) == p.lists[p.dims[var_name]]

\* Lines 723-728 for the first k dimensions of a variable marked before
RECURSIVE CheckDimensions(_, _, _, _, _)
CheckDimensions(p, var_name, loop_lengths, loop_index, k) ==
    IF k = 0 THEN p
    ELSE LET q == CheckDimensions(p, var_name, loop_lengths, loop_index, k - 1)
         IN IF q.err # "" THEN q
            ELSE IF loop_index[k] # q.index[var_name][k]
            THEN [q EXCEPT !.err = "RuntimeError"]
            ELSE IF symbolic_op_lt(DimsOf(q, var_name)[k], loop_lengths[k], q.oracle)
            THEN [q EXCEPT !.lists[q.dims[var_name]][k] = loop_lengths[k]]
            ELSE q

\* Lines 717-728 for one variable; ref is the list object loop_lengths
PromoteVariable(p, var_name, ref, loop_lengths, loop_index) ==
    IF p.dims[var_name] = 0
    THEN [p EXCEPT !.dims[var_name] = ref, !.index[var_name] = loop_index]
    ELSE IF Len(DimsOf(p, var_name)) # Len(loop_lengths)
    THEN [p EXCEPT !.err = "RuntimeError"]
    ELSE CheckDimensions(p, var_name, loop_lengths, loop_index, Len(loop_lengths))

\* The loop over promote_vars, taken in the given order, for its first k
\* variables
RECURSIVE PromoteVariables(_, _, _, _, _, _)
PromoteVariables(p, promote_vars, ref, loop_lengths, loop_index, k) ==
    IF k = 0 THEN p
    ELSE LET q == PromoteVariables(p, promote_vars, ref, loop_lengths, loop_index, k - 1)
         IN IF q.err # "" THEN q
            ELSE PromoteVariable(q, promote_vars[k], ref, loop_lengths, loop_index)

\* get_promotion_dimensions for the marker that promotes promote_vars inside
\* loops (outermost first)
get_promotion_dimensions(promote_vars, loops, p) ==
    PromoteVariables([p EXCEPT !.lists = Append(p.lists,
                          Reversed([k \in DOMAIN loops |-> loops[k].stop]))],
                     promote_vars, Len(p.lists) + 1,
                     Reversed([k \in DOMAIN loops |-> loops[k].stop]),
                     Reversed([k \in DOMAIN loops |-> loops[k].variable]),
                     Len(promote_vars))

-----------------------------------------------------------------------------
(* Specification of get_promotion_dimensions over sequences of markers *)

PromoSizes == {IntLiteral(c) : c \in 1..MaxPromoSize} \cup {Scalar("n")}

PromoLoops ==
    UNION {[1..r -> [variable : {"i", "j"}, stop : PromoSizes]] : r \in 1..MaxPromoRank}

\* The orders in which the loop over the set promote_vars can take it
PromoteVars == {<<"a">>, <<"b">>, <<"a", "b">>, <<"b", "a">>}

Oracles == [const_sym : BOOLEAN, sym_const : BOOLEAN]

InitPromotion ==
    /\ promotion \in {NoPromotion(oracle) : oracle \in Oracles}
    /\ requested = <<>>
    /\ polyhedron = NotRun /\ index = 0 /\ reduced = NotRun
    /\ loop_nest = NotRun /\ var_order = <<>> /\ project_bounds = FALSE
    /\ interchanged = NotRun
    /\ loop_list = <<>> /\ fusion = NotRun
    /\ fission_loop = NotRun /\ rebuilt = NotRun
    /\ routine = NotRun /\ outcome = NotRun

\* A driver processes the next marker; an error ends the driver
Promote ==
    /\ promotion.err = ""
    /\ Len(requested) < MaxRequests
    /\ \E promote_vars \in PromoteVars, loops \in PromoLoops :
          /\ promotion' = get_promotion_dimensions(promote_vars, loops, promotion)
          /\ requested' = Append(requested, [vars |-> promote_vars, loops |-> loops])
    /\ UNCHANGED <<elimVars, interVars, fusionVars, fissionVars, routineVars>>

NextPromotion == Promote

SpecPromotion == InitPromotion /\ [][NextPromotion]_vars

-----------------------------------------------------------------------------
(* Claims about get_promotion_dimensions *)

\* The requests that name the variable: the sizes and the indices, innermost
\* loop first
RequestsOf(var_name) ==
    LET naming == SelectSeq(requested,
                      LAMBDA r : \E k \in DOMAIN r.vars : r.vars[k] = var_name)
    IN [k \in DOMAIN naming |->
           [sizes |-> Reversed([q \in DOMAIN naming[k].loops |-> naming[k].loops[q].stop]),
            index |-> Reversed([q \in DOMAIN naming[k].loops |-> naming[k].loops[q].variable])]]

\* Two requests for one variable differ in rank or in an index variable
Conflict ==
    \E v \in PromoNames :
        \E x, y \in DOMAIN RequestsOf(v) : RequestsOf(v)[x].index # RequestsOf(v)[y].index

SizeValue(size, n) == size.c + size.t["n"] * n

\* The recorded sizes of the variable are the largest requested ones,
\* whatever the value of n
RecordsMaximum(v) ==
    \A n \in 1..MaxSym :
        \A d \in DOMAIN DimsOf(promotion, v) :
            SizeValue(DimsOf(promotion, v)[d], n)
                = SetMax({SizeValue(RequestsOf(v)[x].sizes[d], n) : x \in DOMAIN RequestsOf(v)})

\* C11 as stated: requests for one variable that differ in rank or in an
\* index variable raise an error, other requests never do, and then every
\* recorded size is the maximum of the sizes requested for that dimension.
C11_PromotionConflicts ==
    requested # <<>> =>
        /\ promotion.err # "" <=> Conflict
        /\ promotion.err = "" =>
              \A v \in PromoNames : RequestsOf(v) # <<>> => RecordsMaximum(v)

-----------------------------------------------------------------------------
(* section_hoist and region_hoist: windows of a routine body moved to the  *)
(* target of their group                                                   *)

\* A node of the routine body: a statement, the pragma that starts a window,
\* the pragma that ends one, a target pragma, or a loop of these
HoistNode(kind, id, group, body) == [kind |-> kind, id |-> id, group |-> group, body |-> body, collapse |-> 0]

\* The starting pragma !$loki section-hoist group(group) collapse(collapse)
HoistStart(id, group, collapse) == [HoistNode("start", id, group, <<>>) EXCEPT !.collapse = collapse]

\* FindNodes(...).visit(routine.body): the statements and pragmas of the
\* body at any depth, in source order
RECURSIVE AllLeaves(_)
AllLeaves(nodes) ==
    Concat([p \in DOMAIN nodes |->
               IF nodes[p].kind = "loop" THEN AllLeaves(nodes[p].body) ELSE <<nodes[p]>>])

\* The comments of lines 867, 868 and 876, named after the pragma they stand for
HoistComment(kind, id, group) == HoistNode(kind, id, group, <<>>)

\* The pragma regions of lines 817-822: each starting pragma with the end
\* pragma that follows it, in source order
hoist_sections(body) ==
    LET leaves == AllLeaves(body)
        starts == SelectSeq([x \in DOMAIN leaves |-> [leaf |-> leaves[x], at |-> x]],
                            LAMBDA e : e.leaf.kind = "start")
    IN [k \in DOMAIN starts |->
           [start |-> starts[k].leaf.id,
            stop |-> leaves[CHOOSE y \in DOMAIN leaves :
                               /\ y > starts[k].at /\ leaves[y].kind = "end"
                               /\ \A z \in (starts[k].at + 1)..(y - 1) :
                                     leaves[z].kind # "end"].id,
            group |-> starts[k].leaf.group,
            collapse |-> starts[k].leaf.collapse]]

\* The target pragmas of a group, lines 825-830
hoist_targets(body, group) ==
    SelectSeq(AllLeaves(body), LAMBDA x : x.kind = "target" /\ x.group = group)

\* Visit of a statement or pragma by the masked transformer: a start node
\* switches it on, a stop node switches it off, a node met while it is on is
\* replaced as the mapper says or kept
MaskLeaf(st, o, mapper) ==
    IF o.id \in st.stop THEN [st |-> MaskState(FALSE, st.start, st.stop), out |-> <<>>]
    ELSE IF o.id \in st.start \/ st.active
    THEN [st |-> MaskState(TRUE, st.start \ {o.id}, st.stop),
          out |-> IF o.id \in DOMAIN mapper THEN mapper[o.id] ELSE <<o>>]
    ELSE [st |-> st, out |-> <<>>]

\* Visit of a loop by the masked transformer: rebuilt around what is kept of
\* its body when the transformer is on, passed through to its children
\* otherwise; by the nested masked transformer: rebuilt around what is kept
\* of its body, dropped when nothing is kept
MaskLoop(st, o, inside, nested) ==
    [st |-> inside.st,
     out |-> IF nested
             THEN IF inside.out = <<>> THEN <<>> ELSE <<[o EXCEPT !.body = inside.out]>>
             ELSE IF st.active THEN <<[o EXCEPT !.body = inside.out]>> ELSE inside.out]

\* MaskedTransformer(start, stop, mapper).visit of the first k nodes, and
\* NestedMaskedTransformer(start, stop, mapper).visit when nested
RECURSIVE MaskedVisit(_, _, _, _, _)
MaskNode(st, o, mapper, nested) ==
    IF o.kind \in {"loop", "section"}
    THEN MaskLoop(st, o, MaskedVisit(o.body, Len(o.body), st, mapper, nested), nested)
    ELSE MaskLeaf(st, o, mapper)

MaskedVisit(nodes, k, st, mapper, nested) ==
    IF k = 0 THEN [st |-> st, out |-> <<>>]
    ELSE LET prev == MaskedVisit(nodes, k - 1, st, mapper, nested)
             this == MaskNode(prev.st, nodes[k], mapper, nested)
         IN [st |-> this.st, out |-> prev.out \o this.out]

\* The loops that enclose the node id, outermost first
RECURSIVE EnclosingLoops(_, _)
EnclosingLoops(nodes, id) ==
    LET around == SelectSeq(nodes, LAMBDA o : /\ o.kind = "loop"
                                              /\ \E x \in Range(AllLeaves(o.body)) : x.id = id)
    IN IF around = <<>> THEN <<>>
       ELSE <<around[1]>> \o EnclosingLoops(around[1].body, id)

\* routine.body, the Section that holds the nodes of the routine
Section(body) == HoistNode("section", <<0>>, "", body)

\* FindScopes(start).visit(routine.body)[0]: the scopes around the starting
\* pragma from the body of the routine inwards, then the pragma itself
FindScopes(body, start) ==
    <<Section(body)>> \o EnclosingLoops(body, start)
    \o SelectSeq(AllLeaves(body), LAMBDA x : x.id = start)

CollapsedScopesFromSection(scopes, collapse) == scopes

\* scopes[-(collapse+1):] of lines 854-856: the error of line 855 is built
\* and not raised, and the slice of a list that is too short is the list
CollapsedScopes(scopes, collapse) ==
    SubSeq(scopes, IF Len(scopes) > collapse THEN Len(scopes) - collapse ELSE 1,
           Len(scopes))

\* The section of lines 852-859: with collapse, what the nested transformer
\* keeps of scopes[0]; without, what the transformer keeps of the body
ExtractedSection(body, section) ==
    IF section.collapse > 0
    THEN MaskedVisit(<<CollapsedScopes(FindScopes(body, section.start), section.collapse)[1]>>,
                     1, MaskState(FALSE, {section.start}, {section.stop}),
                     [id \in {section.start} |-> <<>>], TRUE).out
    ELSE MaskedVisit(body, Len(body), MaskState(FALSE, {section.start}, {section.stop}),
                     [id \in {section.start} |-> <<>>], FALSE).out

\* The section between start and stop, wrapped in comments (lines 864-869)
HoistedSection(body, section) ==
    <<HoistComment("begin", section.start, section.group)>>
    \o ExtractedSection(body, section)
    \o <<HoistComment("finish", section.stop, section.group)>>

hoist_body_reversed(body, sections, group) ==
    Concat([k \in DOMAIN sections |->
               IF sections[Len(sections) + 1 - k].group = group
               THEN HoistedSection(body, sections[Len(sections) + 1 - k])
               ELSE <<>>])

\* hoist_body of a group: its sections in the order of the pragma regions
hoist_body(body, sections, group) ==
    Concat([k \in DOMAIN sections |->
               IF sections[k].group = group THEN HoistedSection(body, sections[k])
               ELSE <<>>])

GroupErrorWithoutTarget(targets) == IF targets = <<>> THEN "RuntimeError" ELSE ""

\* The error raised for a group that has no target or several (lines 841-844)
GroupError(targets) == IF Len(targets) # 1 THEN "RuntimeError" ELSE ""

\* The error raised for the first group, in the order of hoist_sections,
\* that has no target or several
RECURSIVE HoistError(_, _, _)
HoistError(body, sections, k) ==
    IF k = 0 THEN ""
    ELSE IF HoistError(body, sections, k - 1) # "" THEN HoistError(body, sections, k - 1)
    ELSE GroupError(hoist_targets(body, sections[k].group))

\* hoist_map: the end pragma of a section becomes a comment, the target of a
\* group its hoist_body (lines 876-880)
hoist_map(body, sections) ==
    [id \in {sections[k].stop : k \in DOMAIN sections}
            \cup {hoist_targets(body, sections[k].group)[1].id : k \in DOMAIN sections} |->
        IF \E k \in DOMAIN sections : sections[k].stop = id
        THEN <<HoistComment("hoisted", id,
                   sections[CHOOSE k \in DOMAIN sections : sections[k].stop = id].group)>>
        ELSE hoist_body(body, sections,
                 (CHOOSE x \in Range(AllLeaves(body)) : x.id = id).group)]

\* The body after the transformer of line 882
HoistedBody(body, sections) ==
    MaskedVisit(body, Len(body),
                MaskState(TRUE, {sections[k].stop : k \in DOMAIN sections},
                          {sections[k].start : k \in DOMAIN sections}),
                hoist_map(body, sections), FALSE).out

Hoist(body, sections) ==
    IF sections = <<>> THEN [err |-> "", body |-> body]
    ELSE IF HoistError(body, sections, Len(sections)) # ""
    THEN [err |-> HoistError(body, sections, Len(sections)), body |-> body]
    ELSE [err |-> "", body |-> HoistedBody(body, sections)]

\* The routine body after section_hoist or region_hoist
section_hoist(body) == Hoist(body, hoist_sections(body))

-----------------------------------------------------------------------------
(* The drivers over a routine: routine.body is assigned once, after every  *)
(* annotated construct has been processed                                  *)

\* A routine: its body, its declarations, the argument project_bounds of
\* loop_interchange and the pragmas that carry promote(a) for loop_fission
Routine(driver, body, project, promote) ==
    [driver |-> driver, body |-> body, project |-> project, promote |-> promote,
     declarations |-> [v \in PromoNames |-> <<>>]]

\* The routine after a driver that does not touch the declarations
Outcome(result, declarations) ==
    [err |-> result.err, body |-> result.body, declarations |-> declarations]

AppliedPerConstruct(body, results, rewritten) ==
    [err |-> FirstError(results), body |-> rewritten]

\* routine.body = Transformer(loop_map).visit(routine.body): reached only
\* if no construct has raised; rewritten is the body with the replacements
\* of loop_map
Applied(body, results, rewritten) ==
    IF FirstError(results) # "" THEN [err |-> FirstError(results), body |-> body]
    ELSE [err |-> "", body |-> rewritten]

\* The nests of the body replaced by the results that loop_map holds
InterchangedBody(body, results) ==
    [k \in DOMAIN body |-> IF results[k].err = "" THEN results[k] ELSE body[k]]

\* The interchange of every annotated nest of the body
InterchangeResults(body, project) ==
    [k \in DOMAIN body |-> loop_interchange(body[k].nest, body[k].order, project)]

\* loop_interchange over the annotated nests of a routine body
interchange_routine(body, project) ==
    Applied(body, InterchangeResults(body, project),
            InterchangedBody(body, InterchangeResults(body, project)))

\* A loop with !$loki loop-fusion group(group) at its place in the body
FusionNode(group, member) == [kind |-> "loop", group |-> group, member |-> member]

FusionComment(text, group) == [kind |-> "comment", text |-> text, group |-> group]

\* The places of the loops of a group, in source order
GroupPositions(body, group) ==
    SelectSeq(Indices(Len(body)),
              LAMBDA q : body[q].kind = "loop" /\ body[q].group = group)

\* fusion_groups: the groups in the order of their first loops
GroupNames(body) ==
    LET firsts == SelectSeq(Indices(Len(body)),
                            LAMBDA q : /\ body[q].kind = "loop"
                                       /\ GroupPositions(body, body[q].group)[1] = q)
    IN [k \in DOMAIN firsts |-> body[firsts[k]].group]

\* The loops of a group with their pragma parameters, in source order
GroupMembers(body, group) ==
    [m \in DOMAIN GroupPositions(body, group) |->
        body[GroupPositions(body, group)[m]].member]

\* The fusion of every group of the body
FusionResults(body) ==
    [k \in DOMAIN GroupNames(body) |->
        loop_fusion(GroupMembers(body, GroupNames(body)[k]))]

\* What loop_map puts at place q: the group comment and the fused loop for
\* the first loop of a group, a comment for its other loops
FusedAt(body, results, q) ==
    LET group == body[q].group
        k == CHOOSE g \in DOMAIN GroupNames(body) : GroupNames(body)[g] = group
    IN IF body[q].kind # "loop" \/ results[k].err # "" THEN <<body[q]>>
       ELSE IF q = GroupPositions(body, group)[1]
       THEN <<FusionComment("group", group), results[k]>>
       ELSE <<FusionComment("loop hoisted", group)>>

\* The body with the replacements of loop_map
FusedBody(body, results) ==
    Concat([q \in DOMAIN body |-> FusedAt(body, results, q)])

\* loop_fusion over the annotated loops of a routine body
fusion_routine(body) ==
    Applied(body, FusionResults(body), FusedBody(body, FusionResults(body)))

\* The loop with the given id in the nest of the outermost loop
LoopById(top, id) ==
    IF id = top.id THEN top
    ELSE top.body[CHOOSE p \in DOMAIN top.body : top.body[p].id = id]

\* promotion_vars_dims and promotion_vars_index after the first k pragmas
\* (lines 777-790); promote holds the pragmas with promote(a)
RECURSIVE PromotedBy(_, _, _)
PromotedBy(top, promote, k) ==
    IF k = 0 THEN NoPromotion([const_sym |-> FALSE, sym_const |-> FALSE])
    ELSE LET prev == PromotedBy(top, promote, k - 1)
             e == pragma_loops(top)[k]
             loops == SubSeq(e.loops, Len(e.loops) + 1 - e.pragma.collapse, Len(e.loops))
         IN IF prev.err # "" \/ e.pragma.id \notin promote THEN prev
            ELSE get_promotion_dimensions(<<"a">>,
                     [q \in DOMAIN loops |->
                         [variable |-> LoopById(top, loops[q]).variable,
                          stop |-> LoopById(top, loops[q]).bounds.stop]],
                     prev)

\* The declared sizes after apply_promotion
Promoted(p) == [v \in PromoNames |-> IF p.dims[v] = 0 THEN <<>> ELSE DimsOf(p, v)]

\* loop_fission over a routine whose body is the loop top
FissionApplied(top, p) ==
    IF p.err # ""
    THEN [err |-> p.err, body |-> <<top>>, declarations |-> Promoted(NoPromotion(p.oracle))]
    ELSE [err |-> "", body |-> visit_Loop(top), declarations |-> Promoted(p)]

fission_routine(top, promote) ==
    FissionApplied(top, PromotedBy(top, promote, Len(pragma_loops(top))))

-----------------------------------------------------------------------------
(* Specification of section_hoist over bounded routine bodies *)

HoistGroups == {"default", "g"}

\* What a routine body is made of: a statement, a target of a group, a
\* window of a group around some statements, and a loop around a window that
\* some statements may precede
HoistItems ==
    {[kind |-> "stmt", group |-> "", before |-> 0, len |-> 0]}
    \cup {[kind |-> "target", group |-> g, before |-> 0, len |-> 0] : g \in HoistGroups}
    \cup {[kind |-> "window", group |-> g, before |-> 0, len |-> n]
          : g \in HoistGroups, n \in 0..MaxWindowLen}
    \cup {[kind |-> "loop", group |-> g, before |-> b, len |-> n]
          : g \in HoistGroups, b \in 0..1, n \in 0..MaxWindowLen}

\* The nodes of a window that begins at position first of item p
WindowNodes(p, first, group, len) ==
    <<HoistStart(<<p, first>>, group, 0)>>
    \o [k \in 1..len |-> HoistNode("stmt", <<p, first + k>>, "", <<>>)]
    \o <<HoistNode("end", <<p, first + len + 1>>, group, <<>>)>>

\* The nodes of item p
ItemNodes(item, p) ==
    IF item.kind = "window" THEN WindowNodes(p, 1, item.group, item.len)
    ELSE IF item.kind = "loop"
    THEN <<HoistNode("loop", <<p>>, "",
               [k \in 1..item.before |-> HoistNode("stmt", <<p, k>>, "", <<>>)]
               \o WindowNodes(p, item.before + 1, item.group, item.len))>>
    ELSE <<HoistNode(item.kind, <<p>>, item.group, <<>>)>>

HoistBodiesUpTo(most) ==
    {Concat([p \in DOMAIN items |-> ItemNodes(items[p], p)])
     : items \in UNION {[1..n -> HoistItems] : n \in 1..most}}

HoistBodies == HoistBodiesUpTo(MaxItems)

IdleOthers ==
    /\ polyhedron = NotRun /\ index = 0 /\ reduced = NotRun
    /\ loop_nest = NotRun /\ var_order = <<>> /\ project_bounds = FALSE
    /\ interchanged = NotRun
    /\ loop_list = <<>> /\ fusion = NotRun
    /\ fission_loop = NotRun /\ rebuilt = NotRun
    /\ promotion = NotRun /\ requested = <<>>

InitHoist ==
    /\ routine \in {Routine("hoist", body, FALSE, {}) : body \in HoistBodies}
    /\ outcome = NotRun
    /\ IdleOthers

SectionHoist ==
    /\ routine.driver = "hoist"
    /\ outcome = NotRun
    /\ outcome' = Outcome(section_hoist(routine.body), routine.declarations)
    /\ UNCHANGED <<routine, elimVars, interVars, fusionVars, fissionVars, promotionVars>>

NextHoist == SectionHoist

SpecHoist == InitHoist /\ [][NextHoist]_vars

-----------------------------------------------------------------------------
(* Claims about section_hoist *)

Sections == hoist_sections(routine.body)

WindowGroups == {Sections[k].group : k \in DOMAIN Sections}

Targets(g) == hoist_targets(routine.body, g)

Hoisted == routine # NotRun /\ routine.driver = "hoist" /\ outcome # NotRun

\* C12: with at least one window, the hoist ends in an error if some group
\* of a window has no target or more than one, and proceeds if every group
\* of a window has exactly one.
C12_TargetUniqueness ==
    (Hoisted /\ Sections # <<>>) =>
        (outcome.err # "" <=> \E g \in WindowGroups : Len(Targets(g)) # 1)

\* A group with a window and two targets has stopped the hoist
C12_Witness ==
    /\ Hoisted
    /\ outcome.err # ""
    /\ \E g \in WindowGroups : Len(Targets(g)) = 2

\* The statements of the windows of a group, in source order
WindowStatements(body, g) ==
    LET leaves == Leaves(body)
        inWindow(x) ==
            \E k \in DOMAIN Sections :
                /\ Sections[k].group = g
                /\ \E a, b \in DOMAIN leaves :
                      /\ leaves[a].id = Sections[k].start /\ leaves[b].id = Sections[k].stop
                      /\ a < x /\ x < b
    IN SelectSeq([x \in DOMAIN leaves |-> [leaf |-> leaves[x], at |-> x]],
                 LAMBDA e : e.leaf.kind = "stmt" /\ inWindow(e.at))

\* What the claim expects in the place of the first k nodes: the statements
\* of a window are gone and a comment stands for the window, the target of a
\* group with windows gives way to the statements of the windows, every
\* other node stays
RECURSIVE ExpectedNodes(_, _, _)
ExpectedNodes(nodes, k, open) ==
    IF k = 0 THEN [open |-> open, out |-> <<>>]
    ELSE LET prev == ExpectedNodes(nodes, k - 1, open)
             o == nodes[k]
         IN IF o.kind = "loop"
            THEN LET inside == ExpectedNodes(o.body, Len(o.body), prev.open)
                 IN [open |-> inside.open,
                     out |-> prev.out \o <<[o EXCEPT !.body = inside.out]>>]
            ELSE IF o.kind = "start" THEN [open |-> TRUE, out |-> prev.out]
            ELSE IF o.kind = "end"
            THEN [open |-> FALSE,
                  out |-> prev.out \o <<HoistComment("hoisted", o.id, o.group)>>]
            ELSE IF prev.open THEN prev
            ELSE IF o.kind = "target" /\ o.group \in WindowGroups
            THEN [open |-> FALSE,
                  out |-> prev.out
                          \o [x \in DOMAIN WindowStatements(routine.body, o.group) |->
                                 WindowStatements(routine.body, o.group)[x].leaf]]
            ELSE [open |-> FALSE, out |-> prev.out \o <<o>>]

\* The body without the comments that wrap a hoisted section
RECURSIVE Unwrapped(_)
Unwrapped(nodes) ==
    LET kept == SelectSeq(nodes, LAMBDA x : x.kind \notin {"begin", "finish"})
    IN [k \in DOMAIN kept |->
           IF kept[k].kind = "loop" THEN [kept[k] EXCEPT !.body = Unwrapped(kept[k].body)]
           ELSE kept[k]]

\* C13: after a hoist that proceeds, the target of every group stands for
\* the statements of the group's windows in source order, one comment stands
\* for each window, and every other node is where it was.
C13_HoistRelocation ==
    (Hoisted /\ Sections # <<>> /\ outcome.err = "") =>
        Unwrapped(outcome.body)
            = ExpectedNodes(routine.body, Len(routine.body), FALSE).out

\* Two windows of one group, both with a statement, have been moved to a
\* target that follows them
C13_Witness ==
    /\ Hoisted /\ outcome.err = ""
    /\ \E g \in WindowGroups :
          /\ Len(SelectSeq(Sections, LAMBDA x : x.group = g)) = 2
          /\ Len(WindowStatements(routine.body, g)) = 2
    /\ routine.body[Len(routine.body)].kind = "target"

-----------------------------------------------------------------------------
(* Specification of the drivers over routines with several constructs *)

UnitRange == LoopRange(IntLiteral(1), Scalar("n"), NoStep)

\* do i = 1, n; do j = 1, stop with !$loki loop-interchange (order)
AnnotatedNest(stop, order) ==
    [nest |-> LoopNest(<<Loop("i", UnitRange, {"loop-interchange"}, ""),
                         Loop("j", LoopRange(IntLiteral(1), stop, NoStep), {}, "")>>,
                       "body"),
     order |-> order]

\* Nests with an affine bound, with a bound that is not affine, with a
\* pragma that names a variable the nest does not have, and with a step of 2
AnnotatedNests ==
    {AnnotatedNest(stop, order)
     : stop \in {Scalar("n"), Scalar("i"), Quotient(Scalar("n"), 2)},
       order \in {<<>>, <<"k", "i">>}}
    \cup {[AnnotatedNest(Scalar("n"), <<>>) EXCEPT !.nest.loops[2].bounds.step = "2"]}

FusionGroup(members) == [members |-> members]

\* Groups that fuse, a group with a bound that is not affine, a group whose
\* members differ in collapse, a group whose constant bound comes first, a
\* group with a step of 2
FusionGroups ==
    {FusionGroup(<<Member1(1, "i", UnitRange),
                   Member1(2, "i", LoopRange(IntLiteral(1), stop, NoStep))>>)
     : stop \in {IntLiteral(3), Scalar("n"), Quotient(Scalar("n"), 2)}}
    \cup {FusionGroup(<<Member1(1, "i", UnitRange),
                         [Member1(2, "i", UnitRange) EXCEPT !.collapse = "2"]>>)}
    \cup {FusionGroup(<<Member1(1, "i", LoopRange(IntLiteral(1), IntLiteral(MaxFusionConst),
                                                  NoStep)),
                         Member1(2, "i", UnitRange)>>)}
    \cup {FusionGroup(<<Member1(1, "i", UnitRange),
                         Member1(2, "i", LoopRange(IntLiteral(1), Scalar("n"), "2"))>>)}

FusionGroupNames == <<"default", "g", "h", "k">>

\* The loops of the groups one group after the other, the k-th group named
\* FusionGroupNames[k]
GroupsInBody(groups) ==
    Concat([k \in DOMAIN groups |->
               [m \in DOMAIN groups[k].members |->
                   FusionNode(FusionGroupNames[k], groups[k].members[m])]])

\* The pragmas below the loop
PragmaIds(top) == {pragma_loops(top)[k].pragma.id : k \in DOMAIN pragma_loops(top)}

Routines ==
    {Routine("interchange", body, project, {})
     : body \in UNION {[1..n -> AnnotatedNests] : n \in 1..MaxConstructs},
       project \in BOOLEAN}
    \cup {Routine("fusion", GroupsInBody(groups), FALSE, {})
          : groups \in UNION {[1..n -> FusionGroups] : n \in 1..MaxConstructs}}
    \cup UNION {{Routine("fission", <<top>>, FALSE, promote) : promote \in SUBSET PragmaIds(top)}
                : top \in FissionLoops}
    \cup {Routine("hoist", body, FALSE, {}) : body \in HoistBodiesUpTo(MaxConstructs)}

InitRoutine ==
    /\ routine \in Routines
    /\ outcome = NotRun
    /\ IdleOthers

LoopInterchange ==
    /\ routine.driver = "interchange"
    /\ outcome = NotRun
    /\ outcome' = Outcome(interchange_routine(routine.body, routine.project),
                          routine.declarations)
    /\ UNCHANGED <<routine, elimVars, interVars, fusionVars, fissionVars, promotionVars>>

LoopFusion ==
    /\ routine.driver = "fusion"
    /\ outcome = NotRun
    /\ outcome' = Outcome(fusion_routine(routine.body), routine.declarations)
    /\ UNCHANGED <<routine, elimVars, interVars, fusionVars, fissionVars, promotionVars>>

LoopFission ==
    /\ routine.driver = "fission"
    /\ outcome = NotRun
    /\ outcome' = fission_routine(routine.body[1], routine.promote)
    /\ UNCHANGED <<routine, elimVars, interVars, fusionVars, fissionVars, promotionVars>>

NextRoutine == LoopInterchange \/ LoopFusion \/ LoopFission \/ SectionHoist

SpecRoutine == InitRoutine /\ [][NextRoutine]_vars

-----------------------------------------------------------------------------
(* Claims about errors of the drivers *)

Driven == routine # NotRun /\ outcome # NotRun

\* C14: when a driver ends with an error, the body and the declarations of
\* the routine are what they were before the call.
C14_NoPartialRewrite ==
    (Driven /\ outcome.err # "") =>
        /\ outcome.body = routine.body
        /\ outcome.declarations = routine.declarations

\* The annotated nests, or the fusion groups, of the routine
Constructs ==
    IF routine.driver = "interchange" THEN routine.body
    ELSE [k \in DOMAIN GroupNames(routine.body) |->
             FusionGroup(GroupMembers(routine.body, GroupNames(routine.body)[k]))]

\* The result of the driver for construct k alone
Alone(k) ==
    IF routine.driver = "interchange"
    THEN loop_interchange(routine.body[k].nest, routine.body[k].order, routine.project)
    ELSE loop_fusion(Constructs[k].members)

\* What the body holds for construct k after a call without error
ConstructResult(k) ==
    IF routine.driver = "interchange" THEN outcome.body[k]
    ELSE outcome.body[1 + CHOOSE q \in DOMAIN outcome.body :
                              outcome.body[q]
                                  = FusionComment("group", GroupNames(routine.body)[k])]

\* The body holds the result of construct k
Transformed(k) ==
    IF routine.driver = "interchange" THEN outcome.body[k] = Alone(k)
    ELSE \E q \in DOMAIN outcome.body : outcome.body[q] = Alone(k)

\* loop_interchange has stopped at the second of two nests, the first of
\* which it can transform
C14_Witness ==
    /\ Driven /\ routine.driver = "interchange" /\ Len(routine.body) = 2
    /\ outcome.err = "ValueError"
    /\ Alone(1).err = "" /\ Alone(2).err = "ValueError"

\* C15: when a nest or group cannot be transformed because a bound is not
\* affine or the pragma names a variable the nest does not have,
\* loop_interchange and loop_fusion still transform every other nest or
\* group of the routine.
C15_ErrorIsolation ==
    (Driven /\ routine.driver \in {"interchange", "fusion"}) =>
        \A k \in DOMAIN Constructs :
            (/\ Alone(k).err = ""
             /\ \A m \in DOMAIN Constructs : Alone(m).err \in {"", "ValueError"})
            => Transformed(k)

-----------------------------------------------------------------------------
(* Specification of loop_fusion over groups whose pragmas carry collapse   *)
(* and range                                                               *)

\* The stops of the members' loops: n, a constant, and n/2, which is not affine
PragmaStops == {Scalar("n"), IntLiteral(MaxFusionConst), Quotient(Scalar("n"), 2)}

\* The ranges a pragma gives
PragmaRanges ==
    {LoopRange(IntLiteral(1), stop, NoStep) : stop \in {Scalar("n"), IntLiteral(MaxFusionConst)}}

\* do i = 1, stop with !$loki loop-fusion [collapse(1)] [range(...)]
PragmaMembers1(m) ==
    {[Member1(m, "i", LoopRange(IntLiteral(1), stop, NoStep))
        EXCEPT !.collapse = collapse, !.range = range]
     : stop \in PragmaStops, collapse \in {"none", "1"},
       range \in {<<>>} \cup {<<r>> : r \in PragmaRanges}}

\* do i = 1, n; do j = 1, stop with !$loki loop-fusion collapse(2) [range(...)]
PragmaMembers2(m) ==
    {[Member2(m, <<"i", "j">>, UnitRange, LoopRange(IntLiteral(1), stop, NoStep))
        EXCEPT !.range = range]
     : stop \in PragmaStops,
       range \in {<<>>} \cup {<<UnitRange, r>> : r \in PragmaRanges}}

PragmaGroups ==
    {<<m1, m2>> : m1 \in PragmaMembers1(1) \cup PragmaMembers2(1),
                  m2 \in PragmaMembers1(2) \cup PragmaMembers2(2)}

InitFusionPragmas ==
    /\ loop_list \in PragmaGroups
    /\ fusion = NotRun
    /\ polyhedron = NotRun /\ index = 0 /\ reduced = NotRun
    /\ loop_nest = NotRun /\ var_order = <<>> /\ project_bounds = FALSE
    /\ interchanged = NotRun
    /\ fission_loop = NotRun /\ rebuilt = NotRun
    /\ promotion = NotRun /\ requested = <<>>
    /\ routine = NotRun /\ outcome = NotRun

SpecFusionPragmas == InitFusionPragmas /\ [][NextFusion]_vars

-----------------------------------------------------------------------------
(* Claims about the pragma parameters of loop_fusion *)

FusionRun == loop_list # NotRun /\ fusion # NotRun

\* The ranges the pragmas of the group give
GivenRanges == {loop_list[m].range : m \in DOMAIN loop_list} \ {<<>>}

DepthsDiffer ==
    \E m1, m2 \in DOMAIN loop_list :
        CollapseDepth(loop_list[m1].collapse) # CollapseDepth(loop_list[m2].collapse)

\* C16: loop_fusion raises the error about conflicting collapse values
\* exactly when two members of the group have different collapse depths, a
\* member without collapse(n) having depth 1.
C16_CollapseAgreement ==
    (FusionRun /\ Cardinality(GivenRanges) <= 1) =>
        ((fusion.err = "RuntimeError") <=> DepthsDiffer)

\* C17: when a pragma of the group gives a range, the fused loops have
\* exactly that range, whatever the bounds of the members are, and two
\* different ranges in one group raise an error.
C17_ExplicitRange ==
    (/\ FusionRun
     /\ GivenRanges # {}
     /\ \A m \in DOMAIN loop_list : loop_list[m].collapse = loop_list[1].collapse)
    => IF Cardinality(GivenRanges) > 1 THEN fusion.err = "RuntimeError"
       ELSE /\ fusion.err = ""
            /\ \A r \in GivenRanges :
                   [q \in DOMAIN fusion.loops |-> fusion.loops[q].bounds] = r

-----------------------------------------------------------------------------
(* Specification of eliminate_variable over systems with enough rows for   *)
(* the result to have more rows than the input                             *)

\* Systems over x and y; the right-hand side of a row is its number, which
\* tells the rows apart
ShapeSystems ==
    UNION {{Polyhedron([k \in 1..n |-> <<x[k], y[k]>>], [k \in 1..n |-> k], ElimVariables)
            : x \in [1..n -> -1..1], y \in [1..n -> 0..1]}
           : n \in 1..MaxShapeRows}

InitElimShape ==
    /\ polyhedron \in ShapeSystems
    /\ index = 0
    /\ reduced = NotRun
    /\ loop_nest = NotRun /\ var_order = <<>> /\ project_bounds = FALSE
    /\ interchanged = NotRun
    /\ loop_list = <<>> /\ fusion = NotRun
    /\ fission_loop = NotRun /\ rebuilt = NotRun
    /\ promotion = NotRun /\ requested = <<>>
    /\ routine = NotRun /\ outcome = NotRun

NextElimShape == Eliminate

SpecElimShape == InitElimShape /\ [][NextElimShape]_vars

-----------------------------------------------------------------------------
(* Claims about the shape of the result of eliminate_variable *)

\* The rows the elimination of column j is to produce: the rows of Z, then
\* one row for each pair of L and U
ExpectedRows(P, j) ==
    [k \in 1..Len(Z(P, j)) |-> [A |-> P.A[Z(P, j)[k]], b |-> P.b[Z(P, j)[k]]]]
    \o [k \in 1..Len(R(P, j)) |-> PairRow(P, j, R(P, j)[k][1], R(P, j)[k][2])]

\* C19: eliminate_variable returns without error, for every system and
\* column, the rows of Z in order followed by one row for each pair of L and
\* U, with column j and variable j removed, also when these are more rows
\* than the input has.
C19_EliminationShape ==
    (index # 0 /\ reduced # NotRun) =>
        LET rows == ExpectedRows(polyhedron, index)
        IN /\ reduced.err = ""
           /\ NRows(reduced) = Len(Z(polyhedron, index))
                               + Len(L(polyhedron, index)) * Len(U(polyhedron, index))
           /\ reduced.A = [k \in DOMAIN rows |-> DropAt(rows[k].A, index)]
           /\ reduced.b = [k \in DOMAIN rows |-> rows[k].b]
           /\ reduced.variables = DropAt(polyhedron.variables, index)

-----------------------------------------------------------------------------
(* Claims about generate_loop_bounds, as loop_interchange calls it *)

\* The loops the interchange reorders
ReorderedLoops == SubSeq(loop_nest.loops, 1, Len(RequestedOrder))

\* The iteration space of the loops the interchange reorders
OriginalSpace ==
    from_loop_ranges([k \in DOMAIN ReorderedLoops |-> ReorderedLoops[k].variable],
                     [k \in DOMAIN ReorderedLoops |-> ReorderedLoops[k].bounds])

\* The new order as indices of iteration variables
IterationOrder ==
    [k \in DOMAIN RequestedOrder |-> IndexOf(SubSeq(NestVariables, 1, Len(RequestedOrder)),
                                             RequestedOrder[k])]

\* The variables of the space in the new order, followed by the free symbols
ReorderedVariables(space, order) ==
    [k \in DOMAIN space.variables |->
        IF k <= Len(order) THEN space.variables[order[k]] ELSE space.variables[k]]

\* C20: for every permutation of the loop variables of an affine nest,
\* generate_loop_bounds completes without error and returns a polyhedron
\* whose variables are the loop variables in the new order followed by the
\* free symbols.
C20_BoundReordering ==
    (interchanged # NotRun /\ project_bounds /\ OriginalSpace.err = "") =>
        /\ generate_loop_bounds(OriginalSpace, IterationOrder).err = ""
        /\ generate_loop_bounds(OriginalSpace, IterationOrder).variables
               = ReorderedVariables(OriginalSpace, IterationOrder)
        /\ interchanged.err = ""

-----------------------------------------------------------------------------
(* Claims about the merge of the members' bounds in loop_fusion *)

FusedDepth == CollapseDepth(loop_list[1].collapse)

\* The iteration spaces of the members of the group
MemberSpaces ==
    [m \in DOMAIN loop_list |->
        from_loop_ranges([q \in 1..FusedDepth |-> loop_list[m].loops[q].variable],
                         [q \in 1..FusedDepth |-> loop_list[m].loops[q].bounds])]

\* The candidates for the lower and upper bound of a level, in the order
\* loop_fusion meets them
LowerCandidates(level) ==
    Concat([m \in DOMAIN loop_list |->
               lower_bounds(MemberSpaces[m], level, (level + 1)..FusedDepth)])

UpperCandidates(level) ==
    Concat([m \in DOMAIN loop_list |->
               upper_bounds(MemberSpaces[m], level, (level + 1)..FusedDepth)])

\* C18: while the bounds of one level are folded, every candidate is among
\* the accumulated bounds right after it has been processed.
C18_CandidateKept ==
    Fused =>
        \A level \in 1..FusedDepth :
            /\ \A k \in DOMAIN LowerCandidates(level) :
                   LowerCandidates(level)[k] \in Range(FoldLower(LowerCandidates(level), k))
            /\ \A k \in DOMAIN UpperCandidates(level) :
                   UpperCandidates(level)[k] \in Range(FoldUpper(UpperCandidates(level), k))

-----------------------------------------------------------------------------
(* Claims about the bounds generate_loop_bounds records *)

\* The bounds recorded for the variable of index var_idx
RecordedBounds(found, var_idx) ==
    Range(found.lower_bounds[var_idx]) \cup Range(found.upper_bounds[var_idx])

\* The variables at the positions S of the new order
OrderedVariables(space, order, S) == {space.variables[order[k]] : k \in S \cap DOMAIN order}

\* No bound recorded for the variable at position k of the new order refers
\* to a variable at one of the positions Others(k)
RecordedAvoid(found, space, order, Others(_)) ==
    \A k \in DOMAIN order :
        \A bound \in RecordedBounds(found, order[k]) :
            FindVariables(bound) \cap OrderedVariables(space, order, Others(k)) = {}

RECURSIVE RecordedCount(_, _)
RecordedCount(found, k) ==
    IF k = 0 THEN 0
    ELSE RecordedCount(found, k - 1)
         + Len(found.lower_bounds[k]) + Len(found.upper_bounds[k])

\* One row of the returned system for each recorded bound
BuiltFromRecorded(found, result) ==
    result.err = "" => NRows(result) = RecordedCount(found, Len(found.lower_bounds))

\* generate_loop_bounds has recorded the bounds of every variable
Projected(found) ==
    /\ interchanged # NotRun /\ project_bounds
    /\ OriginalSpace.err = "" /\ found.err = ""

\* C21 as stated: the bounds recorded for a variable when it is eliminated
\* refer to no variable that is not yet eliminated at that moment, that is
\* to no variable outside it in the new order.
C21_RecordedIgnoreRemaining ==
    Projected(ProjectedBounds(OriginalSpace, IterationOrder)) =>
        RecordedAvoid(ProjectedBounds(OriginalSpace, IterationOrder), OriginalSpace,
                      IterationOrder, LAMBDA k : 1..(k - 1))

\* C21: the bounds recorded for a variable when it is eliminated refer
\* neither to the variable itself nor to a variable eliminated before it
\* (one inside it in the new order); they may refer to the variables not
\* yet eliminated; the returned system has one row for each recorded bound.
C21_RecordedAvoidEliminated ==
    Projected(ProjectedBounds(OriginalSpace, IterationOrder)) =>
        /\ RecordedAvoid(ProjectedBounds(OriginalSpace, IterationOrder), OriginalSpace,
                         IterationOrder, LAMBDA k : k..Len(IterationOrder))
        /\ BuiltFromRecorded(ProjectedBounds(OriginalSpace, IterationOrder),
                             generate_loop_bounds(OriginalSpace, IterationOrder))

\* The loops of a triangular nest have been exchanged: the bound j recorded
\* for i when i is eliminated refers to j, which is eliminated after i
C21_Witness ==
    /\ Interchanged /\ project_bounds
    /\ Len(IterationOrder) = 2
    /\ Scalar("j") \in RecordedBounds(ProjectedBounds(OriginalSpace, IterationOrder), 1)
    /\ interchanged.loops[1].variable = "j"

-----------------------------------------------------------------------------
(* Claims about from_loop_ranges, lower_bounds and upper_bounds *)

\* The variables of the reordered loops, in nest order
LoopVariables == [k \in DOMAIN ReorderedLoops |-> ReorderedLoops[k].variable]

\* The free symbols of the bounds of the reordered loops
FreeSymbols ==
    UNION {FindVariables(ReorderedLoops[k].bounds.start)
           \cup FindVariables(ReorderedLoops[k].bounds.stop) : k \in DOMAIN ReorderedLoops}
    \ Range(LoopVariables)

\* The loop variables nested inside the k-th loop, as columns
NestedInside(k) == (k + 1)..Len(ReorderedLoops)

\* lower_bounds and upper_bounds of the k-th loop variable give back the
\* start and the stop of the loop
RoundTrip(space, k) ==
    /\ lower_bounds(space, k, NestedInside(k)) = <<ReorderedLoops[k].bounds.start>>
    /\ upper_bounds(space, k, NestedInside(k)) = <<ReorderedLoops[k].bounds.stop>>

\* The rows of the loop variable k that do not depend on the ignored columns
BoundRows(space, k, ignore, sign) ==
    SelectSeq(Indices(NRows(space)),
              LAMBDA i : sign * space.A[i][k] > 0
                         /\ \A c \in ignore : space.A[i][c] = 0)

\* One isolated bound for each such row, in row order
RowWise(space, k, ignore) ==
    /\ lower_bounds(space, k, ignore)
           = [r \in DOMAIN BoundRows(space, k, ignore, -1) |->
                 IsolatedBound(space, BoundRows(space, k, ignore, -1)[r], k)]
    /\ upper_bounds(space, k, ignore)
           = [r \in DOMAIN BoundRows(space, k, ignore, 1) |->
                 IsolatedBound(space, BoundRows(space, k, ignore, 1)[r], k)]

\* C22: for a nest with unit steps and affine bounds, from_loop_ranges
\* builds two rows per loop over the loop variables followed by the sorted
\* free symbols, lower_bounds and upper_bounds of a loop variable, ignoring
\* the variables nested inside it, return exactly its start and its stop,
\* and for every set of ignored columns they return one bound per row that
\* bounds the variable and has no ignored column.
C22_AffineRoundTrip ==
    (interchanged # NotRun /\ project_bounds) =>
        /\ OriginalSpace.err = ""
        /\ NRows(OriginalSpace) = 2 * Len(ReorderedLoops)
        /\ OriginalSpace.variables = LoopVariables \o SortedNames(FreeSymbols)
        /\ \A k \in DOMAIN ReorderedLoops :
              /\ RoundTrip(OriginalSpace, k)
              /\ \A ignore \in SUBSET (DOMAIN ReorderedLoops \ {k}) :
                     RowWise(OriginalSpace, k, ignore)

\* The iteration space of a nest of three loops whose inner bounds are outer
\* variables has been built
C22_Witness ==
    /\ interchanged # NotRun /\ project_bounds
    /\ Len(ReorderedLoops) = 3
    /\ loop_nest.loops[2].bounds.stop = Scalar("i")
    /\ loop_nest.loops[3].bounds.start = Scalar("j")
    /\ NRows(OriginalSpace) = 6

-----------------------------------------------------------------------------
(* Claims about the bounds the drivers build from candidate bounds *)

\* The bound built from candidates: the candidate itself, or a call of f
Synthesized(candidates, f) ==
    IF Len(candidates) = 1 THEN candidates[1] ELSE InlineCall(f, candidates)

\* Loop p of the nest has the bounds built from its candidates, with f and g
\* the functions called for several lower and several upper candidates
BoundsBuilt(loops, p, lbs, ubs, f, g) ==
    /\ loops[p].bounds.start = Synthesized(lbs, f)
    /\ loops[p].bounds.stop = Synthesized(ubs, g)

\* The reordered iteration space of the k-th nest of the routine
NestSpace(k) ==
    LET loops == routine.body[k].nest.loops
        names == IF routine.body[k].order # <<>> THEN routine.body[k].order
                 ELSE Reversed([q \in 1..2 |-> loops[q].variable])
        variables == [q \in DOMAIN names |-> loops[q].variable]
    IN generate_loop_bounds(
           from_loop_ranges(variables, [q \in DOMAIN names |-> loops[q].bounds]),
           [q \in DOMAIN names |-> IndexOf(variables, names[q])])

\* The loops interchange has rebuilt for the k-th nest are built with f and g
InterchangeBuilt(k, space, f, g) ==
    \A p \in 1..2 :
        BoundsBuilt(outcome.body[k].loops, p,
                    lower_bounds(space, p, (p + 1)..2),
                    upper_bounds(space, p, (p + 1)..2), f, g)

\* The iteration spaces of the members of the k-th group of the routine
GroupSpaces(k) ==
    [m \in DOMAIN Constructs[k].members |->
        from_loop_ranges(<<Constructs[k].members[m].loops[1].variable>>,
                         <<Constructs[k].members[m].loops[1].bounds>>)]

\* The fused loop of the k-th group is built with f and g
FusionBuilt(k, spaces, f, g) ==
    BoundsBuilt(ConstructResult(k).loops, 1,
                FusedLowerBounds(Concat([m \in DOMAIN spaces |->
                                            lower_bounds(spaces[m], 1, {})])),
                FusedUpperBounds(Concat([m \in DOMAIN spaces |->
                                            upper_bounds(spaces[m], 1, {})])), f, g)

\* A driver has built bounds from candidates
Synthesizing ==
    /\ Driven /\ outcome.err = ""
    /\ \/ routine.driver = "interchange" /\ routine.project
       \/ routine.driver = "fusion"

\* C23 as stated: both drivers use a single candidate as the bound and call
\* max over several lower candidates and min over several upper candidates.
C23_MaxOfLowerMinOfUpper ==
    Synthesizing =>
        \A k \in DOMAIN Constructs :
            IF routine.driver = "interchange"
            THEN InterchangeBuilt(k, NestSpace(k), "max", "min")
            ELSE FusionBuilt(k, GroupSpaces(k), "max", "min")

\* C23: both drivers use a single candidate as the bound; for several
\* candidates interchange with projection calls max over the lower and min
\* over the upper candidates, and fusion calls min over the lower and max
\* over the upper candidates.
C23_BoundSynthesis ==
    Synthesizing =>
        \A k \in DOMAIN Constructs :
            IF routine.driver = "interchange"
            THEN InterchangeBuilt(k, NestSpace(k), "max", "min")
            ELSE FusionBuilt(k, GroupSpaces(k), "min", "max")

\* A fused loop whose upper bound is a call over two candidates
C23_Witness ==
    /\ Synthesizing /\ routine.driver = "fusion"
    /\ \E k \in DOMAIN Constructs : Len(ConstructResult(k).loops[1].bounds.stop.args) = 2

-----------------------------------------------------------------------------
(* Claims about loops with a step *)

\* The loops of the k-th construct of the routine that the driver analyses
AnalysedLoops(k) ==
    IF routine.driver = "interchange" THEN SubSeq(routine.body[k].nest.loops, 1, 2)
    ELSE [m \in DOMAIN Constructs[k].members |-> Constructs[k].members[m].loops[1]]

HasStep(k) ==
    \E q \in DOMAIN AnalysedLoops(k) : AnalysedLoops(k)[q].bounds.step \notin {NoStep, "1"}

\* The bounds the loop of the given variable has in the k-th nest
BoundsIn(k, variable) ==
    LET loops == routine.body[k].nest.loops
    IN loops[CHOOSE q \in DOMAIN loops : loops[q].variable = variable].bounds

\* C24: when a loop of an annotated nest has a step other than 1,
\* interchange with bound projection and fusion do not fail, and the
\* interchanged loops have the original bounds of their variables.
C24_StepFallback ==
    (/\ Driven
     /\ \/ routine.driver = "interchange" /\ routine.project
        \/ routine.driver = "fusion"
     /\ \A k \in DOMAIN Constructs : Alone(k).err = "" \/ HasStep(k))
    => /\ outcome.err = ""
       /\ routine.driver = "interchange" =>
              \A k \in DOMAIN routine.body :
                  HasStep(k) =>
                      \A p \in 1..2 :
                          outcome.body[k].loops[p].bounds
                              = BoundsIn(k, outcome.body[k].loops[p].variable)

-----------------------------------------------------------------------------
(* Specification of loop_fusion over bodies whose groups are interleaved *)

\* What stands at place q of the body: a statement, or a loop over i or K of
\* the group default or g
PlacedNodes(q) ==
    {[kind |-> "statement", id |-> q]}
    \cup {FusionNode(group, Member1(q, v, UnitRange))
          : group \in {"default", "g"}, v \in {"i", "K"}}

PlacedBodies ==
    UNION {{body \in [1..n -> UNION {PlacedNodes(q) : q \in 1..n}] :
               \A q \in 1..n : body[q] \in PlacedNodes(q)}
           : n \in 1..MaxPlaced}

InitFusionPlacement ==
    /\ routine \in {Routine("fusion", body, FALSE, {}) : body \in PlacedBodies}
    /\ outcome = NotRun
    /\ IdleOthers

NextFusionPlacement == LoopFusion

SpecFusionPlacement == InitFusionPlacement /\ [][NextFusionPlacement]_vars

-----------------------------------------------------------------------------
(* Claims about the places of the fused loops *)

IsFirstOfGroup(q) ==
    /\ routine.body[q].kind = "loop"
    /\ \A r \in 1..(q - 1) :
           routine.body[r].kind = "loop" => routine.body[r].group # routine.body[q].group

\* The place in the new body of what place q of the old body has become:
\* every fused loop before it is preceded by one comment
PlaceAfter(q) == q + Cardinality({r \in 1..(q - 1) : IsFirstOfGroup(r)})

\* The places of the loops of the group of the loop at place q
SameGroup(q) ==
    SelectSeq(Indices(Len(routine.body)),
              LAMBDA r : /\ routine.body[r].kind = "loop"
                         /\ routine.body[r].group = routine.body[q].group)

\* nest is one loop over the variable of the loop at place q, and holds the
\* bodies of the loops of its group in source order, each referring to that
\* variable
FusedNestOf(nest, q) ==
    /\ Len(nest.loops) = 1
    /\ nest.loops[1].variable = routine.body[q].member.loops[1].variable
    /\ [m \in DOMAIN nest.bodies |-> nest.bodies[m].body.id]
           = [m \in DOMAIN SameGroup(q) |-> routine.body[SameGroup(q)[m]].member.body.id]
    /\ \A m \in DOMAIN nest.bodies :
           nest.bodies[m].body.variables = <<routine.body[q].member.loops[1].variable>>

\* C25: the place of the first loop of every group holds the group comment
\* and one fused nest, the place of every other loop of the group holds a
\* comment only, and the fused nest holds the bodies of the members in
\* source order with the loop variable of the first member.
C25_FusionPlacement ==
    (Driven /\ routine.driver = "fusion" /\ outcome.err = "") =>
        /\ Len(outcome.body)
               = Len(routine.body)
                 + Cardinality({q \in DOMAIN routine.body : IsFirstOfGroup(q)})
        /\ \A q \in DOMAIN routine.body :
              IF routine.body[q].kind # "loop"
              THEN outcome.body[PlaceAfter(q)] = routine.body[q]
              ELSE IF IsFirstOfGroup(q)
              THEN /\ outcome.body[PlaceAfter(q)]
                          = FusionComment("group", routine.body[q].group)
                   /\ FusedNestOf(outcome.body[PlaceAfter(q) + 1], q)
              ELSE outcome.body[PlaceAfter(q)]
                       = FusionComment("loop hoisted", routine.body[q].group)

-----------------------------------------------------------------------------
(* Specification of section_hoist over windows with collapse(n) inside     *)
(* nested loops                                                            *)

\* A routine body: a window of len statements with collapse(collapse)
\* inside depth nested loops, a statement before the next level in the
\* loops of pre and after it in the loops of post, and the target before
\* the nest or after it
NestShapes ==
    {shape \in [depth : 0..MaxNestDepth, collapse : 0..MaxCollapse,
                len : 1..MaxCollapsedLen, pre : SUBSET (1..MaxNestDepth),
                post : SUBSET (1..MaxNestDepth), first : BOOLEAN] :
        shape.pre \cup shape.post \subseteq 1..shape.depth}

CollapsedWindow(shape) ==
    <<HoistStart(<<0, 1>>, "default", shape.collapse)>>
    \o [k \in 1..shape.len |-> HoistNode("stmt", <<0, 1 + k>>, "", <<>>)]
    \o <<HoistNode("end", <<0, shape.len + 2>>, "default", <<>>)>>

\* The loops from the given level inwards, around the window
RECURSIVE NestFrom(_, _)
NestFrom(shape, level) ==
    IF level > shape.depth THEN CollapsedWindow(shape)
    ELSE <<HoistNode("loop", <<level, 0>>, "",
               (IF level \in shape.pre THEN <<HoistNode("stmt", <<level, 1>>, "", <<>>)>>
                ELSE <<>>)
               \o NestFrom(shape, level + 1)
               \o (IF level \in shape.post THEN <<HoistNode("stmt", <<level, 2>>, "", <<>>)>>
                   ELSE <<>>))>>

NestBody(shape) ==
    (IF shape.first THEN <<HoistNode("target", <<0, 0>>, "default", <<>>)>> ELSE <<>>)
    \o NestFrom(shape, 1)
    \o (IF shape.first THEN <<>> ELSE <<HoistNode("target", <<0, 0>>, "default", <<>>)>>)

InitHoistCollapse ==
    /\ routine \in {Routine("hoist", NestBody(shape), FALSE, {}) : shape \in NestShapes}
    /\ outcome = NotRun
    /\ IdleOthers

NextHoistCollapse == SectionHoist

SpecHoistCollapse == InitHoistCollapse /\ [][NextHoistCollapse]_vars

-----------------------------------------------------------------------------
(* Claims about windows with collapse(n) *)

\* The loops around the starting pragma of the window, outermost first
LoopsAround(k) == EnclosingLoops(routine.body, Sections[k].start)

\* The statements between the pragmas of the window
WindowContent(k) ==
    LET leaves == AllLeaves(routine.body)
        a == CHOOSE x \in DOMAIN leaves : leaves[x].id = Sections[k].start
        b == CHOOSE x \in DOMAIN leaves : leaves[x].id = Sections[k].stop
    IN SubSeq(leaves, a + 1, b - 1)

\* Copies of the loops from the k-th inwards, nested, around the content
RECURSIVE NestedCopies(_, _, _)
NestedCopies(loops, k, content) ==
    IF k > Len(loops) THEN content
    ELSE <<[loops[k] EXCEPT !.body = NestedCopies(loops, k + 1, content)]>>

\* What the routine holds after the hoist between the comments that wrap
\* the section of the window
PlacedAtTarget(k) ==
    LET a == CHOOSE x \in DOMAIN outcome.body :
                 outcome.body[x].kind = "begin" /\ outcome.body[x].id = Sections[k].start
        b == CHOOSE x \in DOMAIN outcome.body :
                 outcome.body[x].kind = "finish" /\ outcome.body[x].id = Sections[k].stop
    IN SubSeq(outcome.body, a + 1, b - 1)

\* C26: a window with collapse(n), n > 0, that n scopes enclose is placed
\* at the target as its statements nested inside copies of the n innermost
\* loops around its starting pragma, in their nesting order and with nothing
\* else of those loops; a window with collapse 0 is placed flat.
C26_HoistCollapse ==
    (Hoisted /\ outcome.err = "") =>
        \A k \in DOMAIN Sections :
            Sections[k].collapse <= Len(LoopsAround(k)) =>
                PlacedAtTarget(k)
                    = NestedCopies(LoopsAround(k),
                                   Len(LoopsAround(k)) - Sections[k].collapse + 1,
                                   WindowContent(k))

\* A window with collapse(1) inside two loops, the inner one with a
\* statement before the window and one after it, has been hoisted inside a
\* copy of the inner loop alone
C26_Witness ==
    /\ Hoisted /\ outcome.err = ""
    /\ \E k \in DOMAIN Sections :
          /\ Sections[k].collapse = 1
          /\ Len(LoopsAround(k)) = 2
          /\ Len(LoopsAround(k)[2].body) > Len(WindowContent(k)) + 3
          /\ Len(PlacedAtTarget(k)) = 1
          /\ PlacedAtTarget(k)[1].id = LoopsAround(k)[2].id
          /\ PlacedAtTarget(k)[1].body = WindowContent(k)

\* C30: when a window asks for collapse(n) and fewer than n scopes enclose
\* its starting pragma, the hoist ends in an error and the routine body is
\* as it was.
C30_CollapseDepthCheck ==
    (Hoisted /\ \E k \in DOMAIN Sections : Sections[k].collapse > Len(LoopsAround(k))) =>
        (outcome.err # "" /\ outcome.body = routine.body)

-----------------------------------------------------------------------------
(* Claims about the accumulated bounds of a level in loop_fusion *)

\* No two bounds of the list differ by a constant
Incomparable(bounds) ==
    \A a, b \in DOMAIN bounds :
        a # b => ~is_constant(simplify_difference(bounds[a], bounds[b]))

\* C27: after any number of candidates of one level has been folded, no two
\* accumulated lower bounds and no two accumulated upper bounds differ by a
\* constant: never two integer constants, never the same bound twice.
C27_MergedIncomparable ==
    Fused =>
        \A level \in 1..FusedDepth :
            /\ \A k \in DOMAIN LowerCandidates(level) :
                   Incomparable(FoldLower(LowerCandidates(level), k))
            /\ \A k \in DOMAIN UpperCandidates(level) :
                   Incomparable(FoldUpper(UpperCandidates(level), k))

\* Two upper bounds have been accumulated, a constant and a symbol, after a
\* smaller constant had been a candidate and has given way
C27_Witness ==
    /\ Fused
    /\ \E level \in 1..FusedDepth :
          \E k \in DOMAIN UpperCandidates(level) :
              /\ Len(FoldUpper(UpperCandidates(level), k)) = 2
              /\ \E j \in 1..(k - 1) :
                    /\ is_constant(UpperCandidates(level)[j])
                    /\ UpperCandidates(level)[j] \notin Range(FoldUpper(UpperCandidates(level), k))
                    /\ UpperCandidates(level)[j] \in Range(FoldUpper(UpperCandidates(level), j))

-----------------------------------------------------------------------------
(* Claims about the statements of the members in the fused nest *)

\* The members whose innermost body stands in the fused nest
FusedBodyIds == [b \in DOMAIN fusion.bodies |-> fusion.bodies[b].body.id]

\* C28: every statement of a member, in the innermost body and beside the
\* nested loop at every other collapsed level, stands exactly once in the
\* fused nest.
C28_FusionKeepsStatements ==
    Fused =>
        \A m \in DOMAIN loop_list :
            /\ Cardinality({b \in DOMAIN FusedBodyIds : FusedBodyIds[b] = loop_list[m].body.id}) = 1
            /\ \A q \in 1..FusedDepth :
                   loop_list[m].loops[q].rest # "" => fusion.loops[q].rest # ""

-----------------------------------------------------------------------------
(* Claims about the frame of get_promotion_dimensions *)

\* The variables that the marker processed last names
LastNamed(markers) == Range(markers[Len(markers)].vars)

\* C29: processing a marker leaves the recorded sizes and indices of every
\* variable that the marker does not name as they were, also when such a
\* variable was first registered together with one that the marker names.
C29_IndependentRequests ==
    [][requested' # requested =>
          \A v \in PromoNames \ LastNamed(requested') :
              /\ Promoted(promotion')[v] = Promoted(promotion)[v]
              /\ promotion'.index[v] = promotion.index[v]]_vars

====
